---- MODULE Spec2Model ----
(***************************************************************************)
(* Model of the Lacework dynamic MCP server: the natural-language to LQL   *)
(* translator (LQLGenerator), the data source catalog (DataSourceExplorer) *)
(* the dynamic tool registry (DynamicToolRegistry) and the tool-call       *)
(* handler of LaceworkMCPServer.                                           *)
(*                                                                         *)
(* Strings are TLA+ strings handled character by character (Len, SubSeq,   *)
(* \o), so that includes(), split(), replace() and the regular expressions *)
(* of the source are computed as the code computes them.                   *)
(***************************************************************************)
EXTENDS Integers, Sequences, FiniteSets, TLC

(***************************************************************************)
(* JavaScript string primitives.                                           *)
(***************************************************************************)
Char(s, i) == SubSeq(s, i, i)

MinOf(S) == CHOOSE m \in S : \A n \in S : m <= n

\* String.prototype.includes
Includes(s, k) ==
  \E i \in 1..(Len(s) - Len(k) + 1) : SubSeq(s, i, i + Len(k) - 1) = k

\* true when one of the strings of ks occurs in s
IncludesAny(s, ks) == \E k \in ks : Includes(s, k)

\* String.prototype.indexOf(k, from), 1-based; 0 when k does not occur
IndexOfFrom(s, k, from) ==
  LET I == {i \in from..(Len(s) - Len(k) + 1) : SubSeq(s, i, i + Len(k) - 1) = k}
  IN  IF I = {} THEN 0 ELSE MinOf(I)

\* the string k occurs in s at position i
LitAt(s, i, k) == i >= 1 /\ i + Len(k) - 1 <= Len(s) /\ SubSeq(s, i, i + Len(k) - 1) = k

StartsWith(s, k) == Len(s) >= Len(k) /\ SubSeq(s, 1, Len(k)) = k

\* s from position i (1-based) to the end
From(s, i) == SubSeq(s, i, Len(s))

UpperChars == "ABCDEFGHIJKLMNOPQRSTUVWXYZ"
LowerChars == "abcdefghijklmnopqrstuvwxyz"
DigitChars == "0123456789"

\* the characters of a string, as a set of one-character strings
CharsOf(s) == {Char(s, i) : i \in 1..Len(s)}

UpperSet == CharsOf(UpperChars)
LowerSet == CharsOf(LowerChars)
DigitSet == CharsOf(DigitChars)

IsLower(c) == c \in LowerSet
IsUpper(c) == c \in UpperSet
IsDigit(c) == c \in DigitSet
\* \w of a regular expression
IsWordChar(c) == IsLower(c) \/ IsUpper(c) \/ IsDigit(c) \/ c = "_"
\* \s of a regular expression (the model's texts use the blank and the newline)
IsSpace(c) == c = " " \/ c = "\n"
\* [-_] of the tool name patterns
IsSep(c) == c = "-" \/ c = "_"

LowerOf == [c \in UpperSet |-> Char(LowerChars, IndexOfFrom(UpperChars, c, 1))]
UpperOf == [c \in LowerSet |-> Char(UpperChars, IndexOfFrom(LowerChars, c, 1))]

LowerChar(c) == IF IsUpper(c) THEN LowerOf[c] ELSE c
UpperChar(c) == IF IsLower(c) THEN UpperOf[c] ELSE c

\* s.replace(/[-_]/g, ' ')
RECURSIVE ReplaceSeps(_)
ReplaceSeps(s) ==
  IF Len(s) = 0 THEN ""
  ELSE IF Len(s) = 1 THEN (IF IsSep(s) THEN " " ELSE s)
  ELSE ReplaceSeps(SubSeq(s, 1, Len(s) \div 2))
       \o ReplaceSeps(SubSeq(s, Len(s) \div 2 + 1, Len(s)))

\* s.replace(/[^\w\s]/g, '')
RECURSIVE StripNonWord(_)
StripNonWord(s) ==
  IF Len(s) = 0 THEN ""
  ELSE IF Len(s) = 1 THEN (IF IsWordChar(s) \/ IsSpace(s) THEN s ELSE "")
  ELSE StripNonWord(SubSeq(s, 1, Len(s) \div 2))
       \o StripNonWord(SubSeq(s, Len(s) \div 2 + 1, Len(s)))

RECURSIVE TrimStart(_)
TrimStart(s) == IF s # "" /\ IsSpace(Head(s)) THEN TrimStart(Tail(s)) ELSE s

RECURSIVE TrimEnd(_)
TrimEnd(s) ==
  IF s # "" /\ IsSpace(Char(s, Len(s))) THEN TrimEnd(SubSeq(s, 1, Len(s) - 1)) ELSE s

\* String.prototype.trim
Trim(s) == TrimEnd(TrimStart(s))

\* s.split(/\s+/): a sequence of strings; a run of blanks is one separator
RECURSIVE SplitWs(_)
SplitWs(s) ==
  LET I == {i \in 1..Len(s) : IsSpace(Char(s, i))}
  IN  IF I = {} THEN <<s>>
      ELSE LET i == MinOf(I)
           IN  <<SubSeq(s, 1, i - 1)>> \o SplitWs(TrimStart(From(s, i)))

\* s.split(sep) for a one-character separator
RECURSIVE SplitOn(_, _)
SplitOn(s, sep) ==
  LET i == IndexOfFrom(s, sep, 1)
  IN  IF i = 0 THEN <<s>>
      ELSE <<SubSeq(s, 1, i - 1)>> \o SplitOn(From(s, i + 1), sep)

\* Array.prototype.join
RECURSIVE Join(_, _)
Join(ws, sep) ==
  IF ws = <<>> THEN ""
  ELSE IF Len(ws) = 1 THEN ws[1]
  ELSE ws[1] \o sep \o Join(Tail(ws), sep)

\* Array.prototype.slice(0, n)
Slice(ws, n) == SubSeq(ws, 1, IF Len(ws) < n THEN Len(ws) ELSE n)

\* s.replace(k, r) with a string pattern: the first occurrence only
ReplaceFirst(s, k, r) ==
  LET i == IndexOfFrom(s, k, 1)
  IN  IF i = 0 THEN s
      ELSE SubSeq(s, 1, i - 1) \o r \o From(s, i + Len(k))

(***************************************************************************)
(* Time.  Instants are counted in seconds since the epoch (the 30 days of  *)
(* the translator, in milliseconds, exceed the integers of the checker);   *)
(* an ISO-8601 string is the instant it denotes wrapped in a one-element   *)
(* sequence, and a missing optional value (undefined, null) is the empty   *)
(* sequence.                                                               *)
(***************************************************************************)
None == <<>>
Some(x) == <<x>>
IsSome(o) == o # <<>>
Get(o) == o[1]

\* new Date(ms).toISOString()
toISOString(ms) == Some(ms)
\* new Date(iso).getTime()
getTime(iso) == Get(iso)

\* hours * 60 * 60 * 1000 milliseconds, in seconds
HourSeconds == 3600

(***************************************************************************)
(* String order of localeCompare on the characters the model uses.         *)
(***************************************************************************)
CollationOrder == "_-0123456789abcdefghijklmnopqrstuvwxyz"

Rank(c) == IndexOfFrom(CollationOrder, LowerChar(c), 1)

RECURSIVE LocaleLess(_, _)
LocaleLess(a, b) ==
  IF b = "" THEN FALSE
  ELSE IF a = "" THEN TRUE
  ELSE IF Rank(Head(a)) # Rank(Head(b)) THEN Rank(Head(a)) < Rank(Head(b))
  ELSE LocaleLess(Tail(a), Tail(b))

\* Array.prototype.sort by name.localeCompare (stable insertion sort)
RECURSIVE InsertByName(_, _)
InsertByName(sorted, x) ==
  IF sorted = <<>> THEN <<x>>
  ELSE IF LocaleLess(x.name, Head(sorted).name) THEN <<x>> \o sorted
  ELSE <<Head(sorted)>> \o InsertByName(Tail(sorted), x)

RECURSIVE SortByName(_)
SortByName(xs) ==
  IF xs = <<>> THEN <<>>
  ELSE InsertByName(SortByName(SubSeq(xs, 1, Len(xs) - 1)), xs[Len(xs)])

(***************************************************************************)
(* LaceworkHandler: the execution and the listing collaborators.           *)
(* An execution outcome is a thrown error or a list of rows; a row is the  *)
(* sequence of its column names.                                           *)
(***************************************************************************)
ExecThrow == [kind |-> "throw", rows |-> <<>>]
ExecRows(rows) == [kind |-> "ok", rows |-> rows]

(***************************************************************************)
(* DataSourceExplorer.                                                     *)
(* The catalog state is [dsc, fc, last]: dataSourceCache as a sequence of  *)
(* DataSourceInfo in insertion order, fieldCache as a function on the      *)
(* cached names, lastDiscovery as an optional instant.                     *)
(***************************************************************************)
\* 30 * 60 * 1000 milliseconds, in seconds
CacheTimeout == 1800

Info(name, category, description) ==
  [name |-> name, category |-> category, description |-> description, fields |-> None]

Field(name, description) == [name |-> name, description |-> description]

getKnownDataSources ==
  << Info("LW_CFG_AWS_EC2_INSTANCES", "AWS", "AWS EC2 instances configuration and state"),
     Info("LW_CFG_AWS_S3", "AWS", "AWS S3 buckets configuration and policies"),
     Info("LW_CFG_AZURE_COMPUTE_VIRTUALMACHINES", "Azure", "Azure virtual machines configuration"),
     Info("CloudTrailRawEvents", "Activity", "AWS CloudTrail API activity events"),
     Info("ContainerVulnDetails", "Containers", "Container vulnerability scan results"),
     Info("ComplianceEvaluationDetails", "Compliance", "Compliance policy evaluation results") >>

getKnownFields(sourceName) ==
  CASE sourceName = "LW_CFG_AWS_EC2_INSTANCES" ->
         << Field("RESOURCE_ID", "EC2 instance ID"),
            Field("RESOURCE_REGION", "AWS region"),
            Field("ACCOUNT_ID", "AWS account ID"),
            Field("RESOURCE_CONFIG", "Instance configuration"),
            Field("URN", "Unique resource identifier") >>
    [] sourceName = "LW_CFG_AZURE_COMPUTE_VIRTUALMACHINES" ->
         << Field("RESOURCE_ID", "Azure VM resource ID"),
            Field("RESOURCE_REGION", "Azure region"),
            Field("SUBSCRIPTION_ID", "Azure subscription ID"),
            Field("RESOURCE_CONFIG", "VM configuration"),
            Field("RESOURCE_GROUP", "Azure resource group") >>
    [] sourceName = "CloudTrailRawEvents" ->
         << Field("EVENT_TIME", "Event timestamp"),
            Field("EVENT_NAME", "API call name"),
            Field("EVENT_SOURCE", "AWS service"),
            Field("ERROR_CODE", "Error code if failed"),
            Field("USER_NAME", "User or role name") >>
    [] OTHER -> <<>>

\* The strings of the two tables above, and their lower-case forms, computed
\* once: toLowerCase looks a string of the tables up and converts any other.
KnownNames == {getKnownDataSources[i].name : i \in 1..Len(getKnownDataSources)}

TableStrings ==
  UNION {{getKnownDataSources[i].name, getKnownDataSources[i].category,
          getKnownDataSources[i].description} : i \in 1..Len(getKnownDataSources)}
  \cup UNION {UNION {{getKnownFields(n)[i].name, getKnownFields(n)[i].description} :
                       i \in 1..Len(getKnownFields(n))} : n \in KnownNames}

RECURSIVE LowerCaseOf(_)
LowerCaseOf(s) ==
  IF Len(s) = 0 THEN ""
  ELSE IF Len(s) = 1 THEN LowerChar(s)
  ELSE LowerCaseOf(SubSeq(s, 1, Len(s) \div 2))
       \o LowerCaseOf(SubSeq(s, Len(s) \div 2 + 1, Len(s)))

LowerCaseTable == [s \in TableStrings |-> LowerCaseOf(s)]

\* String.prototype.toLowerCase
ToLowerCase(s) ==
  IF s \in TableStrings THEN LowerCaseTable[s]
  ELSE IF \A i \in 1..Len(s) : ~IsUpper(Char(s, i)) THEN s
  ELSE LowerCaseOf(s)

\* String.prototype.toUpperCase
RECURSIVE ToUpperCase(_)
ToUpperCase(s) ==
  IF Len(s) = 0 THEN ""
  ELSE IF Len(s) = 1 THEN UpperChar(s)
  ELSE ToUpperCase(SubSeq(s, 1, Len(s) \div 2))
       \o ToUpperCase(SubSeq(s, Len(s) \div 2 + 1, Len(s)))

generateDescription(sourceName, category) ==
  LET name == ToUpperCase(sourceName)
  IN  CASE category = "AWS" /\ Includes(name, "EC2") -> "AWS EC2 instances configuration and state"
        [] category = "AWS" /\ Includes(name, "S3") -> "AWS S3 buckets configuration and access policies"
        [] category = "AWS" /\ Includes(name, "IAM") -> "AWS IAM users, roles, and policies"
        [] category = "AWS" /\ Includes(name, "LAMBDA") -> "AWS Lambda functions configuration"
        [] category = "AWS" /\ Includes(name, "RDS") -> "AWS RDS database instances"
        [] category = "AWS" /\ Includes(name, "CLOUDTRAIL") -> "AWS CloudTrail API activity logs"
        [] category = "AWS" /\ Includes(name, "VPC") -> "AWS VPC networking configuration"
        [] category = "AWS" /\ Includes(name, "SECURITY") -> "AWS security groups and NACLs"
        [] category = "Azure" /\ Includes(name, "COMPUTE") -> "Azure compute resources and virtual machines"
        [] category = "Azure" /\ Includes(name, "STORAGE") -> "Azure storage accounts and blob containers"
        [] category = "Azure" /\ Includes(name, "NETWORK") -> "Azure virtual networks and security groups"
        [] category = "Azure" /\ Includes(name, "DATABASE") -> "Azure database services"
        [] category = "Container" /\ Includes(name, "VULN") -> "Container vulnerability scan results"
        [] category = "Container" /\ Includes(name, "IMAGE") -> "Container image metadata and layers"
        [] OTHER -> category \o " data source: " \o sourceName

categorizeDataSource(sourceName) ==
  LET name == ToUpperCase(sourceName)
  IN  CASE Includes(name, "AWS") ->
             Info(sourceName, "AWS", generateDescription(sourceName, "AWS"))
        [] Includes(name, "AZURE") ->
             Info(sourceName, "Azure", generateDescription(sourceName, "Azure"))
        [] IncludesAny(name, {"GCP", "GOOGLE"}) ->
             Info(sourceName, "GCP", generateDescription(sourceName, "GCP"))
        [] IncludesAny(name, {"CONTAINER", "VULN", "IMAGE"}) ->
             Info(sourceName, "Containers", generateDescription(sourceName, "Container"))
        [] IncludesAny(name, {"K8S", "KUBERNETES"}) ->
             Info(sourceName, "Kubernetes", generateDescription(sourceName, "Kubernetes"))
        [] IncludesAny(name, {"COMPLIANCE", "CIS"}) ->
             Info(sourceName, "Compliance", generateDescription(sourceName, "Compliance"))
        [] IncludesAny(name, {"NETWORK", "CONNECTION"}) ->
             Info(sourceName, "Network", generateDescription(sourceName, "Network"))
        [] IncludesAny(name, {"ACTIVITY", "AUDIT", "CLOUDTRAIL"}) ->
             Info(sourceName, "Activity", generateDescription(sourceName, "Activity"))
        [] OTHER -> Info(sourceName, "General", "Lacework data source: " \o sourceName)

generateFieldDescription(fieldName, sourceName) ==
  LET field == ToUpperCase(fieldName)
  IN  CASE Includes(field, "ID") -> "Unique identifier"
        [] Includes(field, "TIME") -> "Timestamp field"
        [] Includes(field, "REGION") -> "Cloud region location"
        [] Includes(field, "ACCOUNT") -> "Cloud account identifier"
        [] Includes(field, "USER") -> "User or principal name"
        [] Includes(field, "RESOURCE") -> "Resource identifier or configuration"
        [] Includes(field, "ERROR") -> "Error code or message"
        [] Includes(field, "STATUS") -> "Status or state field"
        [] Includes(field, "SEVERITY") -> "Severity level"
        [] Includes(field, "SCORE") -> "Risk or priority score"
        [] Includes(field, "CONFIG") -> "Configuration data"
        [] Includes(field, "EVENT") -> "Event data or name"
        [] Includes(field, "SOURCE") -> "Event or data source"
        [] Includes(field, "IP") -> "IP address"
        [] Includes(field, "PORT") -> "Network port"
        [] Includes(field, "PROTOCOL") -> "Network protocol"
        [] OTHER -> "Field from " \o sourceName

\* Map operations on dataSourceCache (a sequence in insertion order)
CacheHas(dsc, name) == \E i \in 1..Len(dsc) : dsc[i].name = name

CacheGet(dsc, name) ==
  IF CacheHas(dsc, name) THEN Some(dsc[CHOOSE i \in 1..Len(dsc) : dsc[i].name = name]) ELSE None

CacheSet(dsc, name, info) ==
  IF CacheHas(dsc, name)
  THEN [i \in 1..Len(dsc) |-> IF dsc[i].name = name THEN info ELSE dsc[i]]
  ELSE Append(dsc, info)

EmptyCatalog == [dsc |-> <<>>, fc |-> <<>>, last |-> None]

\* a DrillDownRequest; "" and 0 stand for an absent member
Request(pattern, category, provider, limit) ==
  [pattern |-> pattern, category |-> category, provider |-> provider, limit |-> limit]

NoFilter == Request("", "", "", 0)

matchesFilter(source, request) ==
  /\ ~(request.pattern # ""
       /\ ~Includes(ToLowerCase(source.name), ToLowerCase(request.pattern)))
  /\ ~(request.category # ""
       /\ ~Includes(ToLowerCase(source.category), ToLowerCase(request.category)))
  /\ ~(request.provider # ""
       /\ ~Includes(ToLowerCase(source.name), ToLowerCase(request.provider))
       /\ ~Includes(ToLowerCase(source.category), ToLowerCase(request.provider)))

shouldUseCache(cat, t) == IsSome(cat.last) /\ (t - Get(cat.last)) < CacheTimeout

getCachedDataSources(cat, request) ==
  SelectSeq(cat.dsc, LAMBDA x : matchesFilter(x, request))

\* the loop over the names the listing collaborator returned
RECURSIVE CategorizeAll(_, _, _)
CategorizeAll(acc, baseSources, request) ==
  IF baseSources = <<>> THEN acc
  ELSE LET info == categorizeDataSource(Head(baseSources))
       IN  CategorizeAll(
             IF matchesFilter(info, request)
             THEN [enhanced |-> Append(acc.enhanced, info),
                   dsc |-> CacheSet(acc.dsc, Head(baseSources), info)]
             ELSE acc,
             Tail(baseSources), request)

\* the loop over the known sources
RECURSIVE MergeKnown(_, _, _)
MergeKnown(acc, known, request) ==
  IF known = <<>> THEN acc
  ELSE MergeKnown(
         IF matchesFilter(Head(known), request)
            /\ ~\E i \in 1..Len(acc.enhanced) : acc.enhanced[i].name = Head(known).name
         THEN [enhanced |-> Append(acc.enhanced, Head(known)),
               dsc |-> CacheSet(acc.dsc, Head(known).name, Head(known))]
         ELSE acc,
         Tail(known), request)

\* the result of the fetch path of discoverDataSources, from what the two loops
\* left
Discovered(cat, b, t) ==
  [ret |-> b.enhanced, threw |-> FALSE,
   cat |-> [cat EXCEPT !.dsc = b.dsc, !.last = Some(t)],
   listed |-> 1]

\* discoverDataSources from the answer of `await getDataSources()` to its
\* return: the two loops and lastDiscovery = new Date(), at instant t, on the
\* catalog found at that instant
FetchDataSources(cat, request, listing, t) ==
  Discovered(cat,
             MergeKnown(CategorizeAll([enhanced |-> <<>>, dsc |-> cat.dsc],
                                      listing, request),
                        getKnownDataSources, request),
             t)

\* discoverDataSources(request) at instant t, when the listing collaborator
\* answers `listing`: the returned list, the catalog afterwards, the number of
\* listing calls made
discoverDataSources(cat, request, listing, t) ==
  IF shouldUseCache(cat, t)
  THEN [ret |-> getCachedDataSources(cat, request), threw |-> FALSE, cat |-> cat, listed |-> 0]
  ELSE FetchDataSources(cat, request, listing, t)

\* discoverFields(sourceName) when the sample query ends as `exec`: the error
\* of the execution collaborator is caught
discoverFields(sourceName, exec) ==
  IF exec.kind = "throw"
  THEN [threw |-> FALSE, ret |-> getKnownFields(sourceName)]
  ELSE [threw |-> FALSE,
        ret |-> SortByName(
                  IF Len(exec.rows) > 0
                  THEN [i \in 1..Len(exec.rows[1]) |->
                          Field(exec.rows[1][i],
                                generateFieldDescription(exec.rows[1][i], sourceName))]
                  ELSE getKnownFields(sourceName))]

\* the cache-hit path of exploreDataSource
ExploreCached(cat, sourceName, cached) ==
  [ret |-> Some(cached), threw |-> FALSE,
   cat |-> [cat EXCEPT !.dsc = CacheSet(cat.dsc, sourceName, cached)],
   executed |-> 0]

\* the discovery path of exploreDataSource, once discoverFields returned f
ExploreFetched(cat, sourceName, base, f) ==
  IF f.threw
  THEN \* catch: the cached entry, or null
       [ret |-> CacheGet(cat.dsc, sourceName), threw |-> FALSE,
        cat |-> cat, executed |-> 1]
  ELSE [ret |-> Some([base EXCEPT !.fields = Some(f.ret)]), threw |-> FALSE,
        cat |-> [cat EXCEPT !.dsc = CacheSet(cat.dsc, sourceName,
                                             [base EXCEPT !.fields = Some(f.ret)]),
                            !.fc = [n \in DOMAIN cat.fc \cup {sourceName} |->
                                      IF n = sourceName THEN f.ret ELSE cat.fc[n]]],
        executed |-> 1]

\* a variant of exploreDataSource that never looks into the field cache
exploreDataSourceAnew(cat, sourceName, exec) ==
  ExploreFetched(cat, sourceName,
                 IF CacheHas(cat.dsc, sourceName)
                 THEN Get(CacheGet(cat.dsc, sourceName))
                 ELSE categorizeDataSource(sourceName),
                 discoverFields(sourceName, exec))

\* exploreDataSource(sourceName): the returned info (optional), the catalog
\* afterwards, the number of calls of the execution collaborator; the whole
\* body is inside a try, so no error escapes
exploreDataSource(cat, sourceName, exec) ==
  IF sourceName \in DOMAIN cat.fc /\ CacheHas(cat.dsc, sourceName)
  THEN ExploreCached(cat, sourceName,
                     [Get(CacheGet(cat.dsc, sourceName)) EXCEPT
                        !.fields = Some(cat.fc[sourceName])])
  ELSE ExploreFetched(cat, sourceName,
                      IF CacheHas(cat.dsc, sourceName)
                      THEN Get(CacheGet(cat.dsc, sourceName))
                      ELSE categorizeDataSource(sourceName),
                      discoverFields(sourceName, exec))

\* the ranking of searchDataSources: the hits whose name contains the whole
\* query first, each group by name
RankHits(hits, lowerQuery) ==
  SortByName(SelectSeq(hits, LAMBDA x : Includes(ToLowerCase(x.name), lowerQuery)))
  \o SortByName(SelectSeq(hits, LAMBDA x : ~Includes(ToLowerCase(x.name), lowerQuery)))

\* `${name} ${category} ${description}`.toLowerCase(), part by part
Searchable(x) ==
  ToLowerCase(x.name) \o " " \o ToLowerCase(x.category) \o " " \o ToLowerCase(x.description)

\* searchDataSources(query), once discoverDataSources() returned d
SearchIn(d, searchTerms, lowerQuery) ==
  [ret |-> RankHits(SelectSeq(d.ret, LAMBDA x :
                      \E i \in 1..Len(searchTerms) : Includes(Searchable(x), searchTerms[i])),
                    lowerQuery),
   threw |-> d.threw, cat |-> d.cat, listed |-> d.listed]

\* searchDataSources(query)
searchDataSources(cat, query, listing, t) ==
  SearchIn(discoverDataSources(cat, NoFilter, listing, t),
           SplitWs(ToLowerCase(query)), ToLowerCase(query))

(***************************************************************************)
(* LQLGenerator.                                                           *)
(* A parameter map (a JavaScript object) is a sequence of <<key, value>>   *)
(* in insertion order; the boolean true of a pattern is the value "true".  *)
(***************************************************************************)
MapHas(m, k) == \E i \in 1..Len(m) : m[i][1] = k

MapGet(m, k) == m[CHOOSE i \in 1..Len(m) : m[i][1] = k][2]

MapSet(m, k, v) ==
  IF MapHas(m, k)
  THEN [i \in 1..Len(m) |-> IF m[i][1] = k THEN <<k, v>> ELSE m[i]]
  ELSE Append(m, <<k, v>>)

MapKeys(m) == [i \in 1..Len(m) |-> m[i][1]]

\* { ...a, ...b }
RECURSIVE MapSpread(_, _)
MapSpread(a, b) ==
  IF b = <<>> THEN a ELSE MapSpread(MapSet(a, Head(b)[1], Head(b)[2]), Tail(b))

Mapping(keywords, lqlSource, commonFields) ==
  [keywords |-> keywords, lqlSource |-> lqlSource, commonFields |-> commonFields]

\* initializeDataSources: the static keyword mappings in insertion order
StaticDataSources ==
  << Mapping(<<"ec2", "instance", "instances", "virtual machine", "vm">>,
             "LW_CFG_AWS_EC2_INSTANCES",
             <<"RESOURCE_ID", "RESOURCE_REGION", "ACCOUNT_ID", "RESOURCE_CONFIG", "URN">>),
     Mapping(<<"s3", "bucket", "storage", "object storage">>,
             "LW_CFG_AWS_S3",
             <<"RESOURCE_ID", "RESOURCE_REGION", "ACCOUNT_ID", "RESOURCE_CONFIG", "URN">>),
     Mapping(<<"cloudtrail", "events", "api calls", "audit log">>,
             "CloudTrailRawEvents",
             <<"INSERT_ID", "EVENT_TIME", "EVENT_NAME", "EVENT_SOURCE", "ERROR_CODE">>),
     Mapping(<<"container", "docker", "image", "vulnerability", "cve">>,
             "ContainerVulnDetails",
             <<"IMAGE_DIGEST", "SEVERITY", "CVE_ID", "NAMESPACE">>),
     Mapping(<<"kubernetes", "k8s", "pod", "deployment", "service">>,
             "KubernetesActivity",
             <<"CLUSTER_NAME", "NAMESPACE", "RESOURCE_TYPE", "ACTION">>),
     Mapping(<<"network", "connection", "traffic", "lateral movement", "communication">>,
             "NetworkActivity",
             <<"SOURCE_IP", "DEST_IP", "PORT", "PROTOCOL">>),
     Mapping(<<"user", "login", "authentication", "access", "identity">>,
             "UserActivity",
             <<"USER_NAME", "SOURCE_IP", "ACTION", "STATUS">>) >>

StaticMatches(query) ==
  {n \in 1..Len(StaticDataSources) :
     \E i \in 1..Len(StaticDataSources[n].keywords) :
        Includes(query, StaticDataSources[n].keywords[i])}

\* the dynamic branch of identifyDataSource, once searchDataSources returned r;
\* try { ... } catch: an error of the search leaves null
FromSearch(r) ==
  IF ~r.threw /\ Len(r.ret) > 0
  THEN [ds |-> Some(Mapping(<<ToLowerCase(r.ret[1].name)>>, r.ret[1].name,
                            IF IsSome(r.ret[1].fields)
                            THEN [i \in 1..Len(Get(r.ret[1].fields)) |->
                                    Get(r.ret[1].fields)[i].name]
                            ELSE <<>>)),
        threw |-> FALSE, cat |-> r.cat, listed |-> r.listed]
  ELSE [ds |-> None, threw |-> FALSE, cat |-> r.cat, listed |-> r.listed]

\* a variant of identifyDataSource that searches the catalog before the
\* static mappings
identifyDataSourceBySearch(cat, query, listing, t) ==
  LET r == FromSearch(searchDataSources(cat, query, listing, t))
  IN  IF IsSome(r.ds) \/ StaticMatches(query) = {} THEN r
      ELSE [ds |-> Some(StaticDataSources[MinOf(StaticMatches(query))]), threw |-> FALSE,
            cat |-> r.cat, listed |-> r.listed]

\* identifyDataSource(query): the mapping (optional), the catalog afterwards,
\* the number of listing calls
identifyDataSource(cat, query, listing, t) ==
  IF StaticMatches(query) # {}
  THEN [ds |-> Some(StaticDataSources[MinOf(StaticMatches(query))]), threw |-> FALSE,
        cat |-> cat, listed |-> 0]
  ELSE FromSearch(searchDataSources(cat, query, listing, t))

\* /(?:a1|a2).*(?:b1|b2).*(?:c1|c2)/ : groups is the sequence of the sets of
\* alternatives; true when they occur in this order without overlapping
RECURSIVE MatchesInOrder(_, _, _)
MatchesInOrder(s, from, groups) ==
  IF groups = <<>> THEN TRUE
  ELSE LET F == UNION {{q + Len(k) : q \in {p \in from..Len(s) : LitAt(s, p, k)}} :
                           k \in Head(groups)}
       IN  IF F = {} THEN FALSE ELSE MatchesInOrder(s, MinOf(F), Tail(groups))

\* /lateral.movement/
MatchesLateralMovement(s) ==
  \E i \in 1..Len(s) :
     LitAt(s, i, "lateral") /\ i + 7 <= Len(s) /\ Char(s, i + 7) # "\n" /\ LitAt(s, i + 8, "movement")

Pattern(category, parameters, suggestedName) ==
  [category |-> category, parameters |-> parameters, suggestedName |-> suggestedName]

\* matchQueryPattern(query): the first pattern of initializeQueryPatterns that
\* matches (the patterns are case-insensitive)
matchQueryPattern(naturalQuery) ==
  LET q == ToLowerCase(naturalQuery)
  IN  CASE MatchesInOrder(q, 1, <<{"show", "get", "find", "list"}, {"high", "critical"}, {"risk", "score"}>>) ->
             Some(Pattern("risk-assessment",
                          <<<<"risk_threshold", "high">>, <<"severity", "high">>>>,
                          "high-risk-assets"))
        [] MatchesInOrder(q, 1, <<{"compliance", "cis", "benchmark"}, {"fail", "violation", "issue"}>>) ->
             Some(Pattern("compliance", <<<<"status", "fail">>>>, "compliance-violations"))
        [] MatchesInOrder(q, 1, <<{"vulnerabilit", "cve", "security"}, {"critical", "high"}>>) ->
             Some(Pattern("vulnerabilities", <<<<"severity", "critical,high">>>>,
                          "critical-vulnerabilities"))
        [] MatchesInOrder(q, 1, <<{"aws"}, {"ec2", "instance"}, {"unencrypt", "public", "expose"}>>) ->
             Some(Pattern("aws-security",
                          <<<<"cloud_provider", "aws">>, <<"resource_type", "ec2">>>>,
                          "aws-insecure-ec2"))
        [] MatchesInOrder(q, 1, <<{"container"}, {"vulnerabilit", "cve", "insecure"}>>) ->
             Some(Pattern("container-security", <<<<"resource_type", "container">>>>,
                          "container-vulnerabilities"))
        [] MatchesLateralMovement(q)
           \/ MatchesInOrder(q, 1, <<{"suspicious"}, {"network"}>>)
           \/ MatchesInOrder(q, 1, <<{"unusual"}, {"connection"}>>) ->
             Some(Pattern("threat-detection",
                          <<<<"activity_type", "network">>, <<"anomaly", "true">>>>,
                          "lateral-movement-detection"))
        [] OTHER -> None

\* the maximal run of lower-case letters of s that starts at position k: its end
RECURSIVE LowerRunEnd(_, _)
LowerRunEnd(s, k) ==
  IF k <= Len(s) /\ IsLower(Char(s, k)) THEN LowerRunEnd(s, k + 1) ELSE k - 1

RECURSIVE SpaceRunEnd(_, _)
SpaceRunEnd(s, k) ==
  IF k <= Len(s) /\ IsSpace(Char(s, k)) THEN SpaceRunEnd(s, k + 1) ELSE k - 1

\* /(?:region|in)\s+([a-z]{2}-[a-z]+-\d)/ matched with the word at position i:
\* the captured region, "" when it does not match there
RegionAt(s, i) ==
  LET w == IF LitAt(s, i, "region") THEN "region" ELSE IF LitAt(s, i, "in") THEN "in" ELSE ""
      j == i + Len(w)
      k == SpaceRunEnd(s, j) + 1
      m == LowerRunEnd(s, k + 3)
  IN  IF /\ w # ""
         /\ k > j
         /\ k + 1 <= Len(s) /\ IsLower(Char(s, k)) /\ IsLower(Char(s, k + 1))
         /\ LitAt(s, k + 2, "-")
         /\ m >= k + 3
         /\ LitAt(s, m + 1, "-")
         /\ m + 2 <= Len(s) /\ IsDigit(Char(s, m + 2))
      THEN SubSeq(s, k, m + 2)
      ELSE ""

RegionMatch(s) ==
  LET I == {i \in 1..Len(s) : RegionAt(s, i) # ""}
  IN  IF I = {} THEN "" ELSE RegionAt(s, MinOf(I))

\* one conditional assignment of extractFilters
SetIf(m, cond, k, v) == IF cond THEN MapSet(m, k, v) ELSE m

\* extractFilters(query)
extractFilters(query) ==
  LET f1  == SetIf(<<>>, Includes(query, "high risk") \/ Includes(query, "high score"),
                   "risk_score", ">= 7")
      f2  == SetIf(f1, Includes(query, "critical"), "severity", "critical")
      f3  == SetIf(f2, Includes(query, "high")
                       /\ (Includes(query, "severity") \/ Includes(query, "priority")),
                   "severity", "high")
      f4  == SetIf(f3, RegionMatch(query) # "", "region", RegionMatch(query))
      f5  == SetIf(f4, Includes(query, "ec2"), "resource_type", "ec2")
      f6  == SetIf(f5, Includes(query, "s3") \/ Includes(query, "bucket"), "resource_type", "s3")
      f7  == SetIf(f6, Includes(query, "container"), "resource_type", "container")
      f8  == SetIf(f7, Includes(query, "fail") \/ Includes(query, "violation"), "status", "fail")
      f9  == SetIf(f8, Includes(query, "active") \/ Includes(query, "running"), "status", "active")
      f10 == SetIf(f9, Includes(query, "unencrypt"), "encrypted", "false")
      f11 == SetIf(f10, Includes(query, "public") \/ Includes(query, "expose"),
                   "public_access", "true")
  IN  f11

\* the ranges of extractTimeRange in their order: the phrases and the hours
TimeRanges ==
  << [phrases |-> {"last hour", "past hour"}, hours |-> 1],
     [phrases |-> {"last 24 hour", "past 24 hour", "today"}, hours |-> 24],
     [phrases |-> {"last week", "past week"}, hours |-> 24 * 7],
     [phrases |-> {"last month", "past month"}, hours |-> 24 * 30],
     [phrases |-> {"last 7 day", "past 7 day"}, hours |-> 24 * 7],
     [phrases |-> {"last 30 day", "past 30 day"}, hours |-> 24 * 30] >>

\* a variant of extractTimeRange whose range starts after it ends
extractTimeRangeAhead(query, t) ==
  [start |-> toISOString(t + 24 * HourSeconds), end |-> toISOString(t)]

\* a variant of extractTimeRange in which the last matching range of the list
\* wins
extractTimeRangeLastMatch(query, t) ==
  LET q == ToLowerCase(query)
      M == {n \in 1..Len(TimeRanges) : IncludesAny(q, TimeRanges[n].phrases)}
      hours == IF M = {} THEN 24 ELSE TimeRanges[CHOOSE m \in M : \A n \in M : n <= m].hours
  IN  [start |-> toISOString(t - hours * HourSeconds), end |-> toISOString(t)]

\* extractTimeRange(query) at instant t
extractTimeRange(query, t) ==
  LET q == ToLowerCase(query)
      M == {n \in 1..Len(TimeRanges) : IncludesAny(q, TimeRanges[n].phrases)}
      hours == IF M = {} THEN 24 ELSE TimeRanges[MinOf(M)].hours
  IN  [start |-> toISOString(t - hours * HourSeconds), end |-> toISOString(t)]

\* the properties an object literal inherits from Object.prototype
ObjectPrototype ==
  {"constructor", "__proto__", "hasOwnProperty", "isPrototypeOf", "propertyIsEnumerable",
   "toString", "toLocaleString", "valueOf", "__defineGetter__", "__defineSetter__",
   "__lookupGetter__", "__lookupSetter__"}

\* an inherited property, a function or the prototype object, as a template
\* literal prints it
Inherited(key) ==
  IF key = "__proto__" THEN "[object Object]"
  ELSE "function " \o (IF key = "constructor" THEN "Object" ELSE key)
       \o "() { [native code] }"

\* the sources that have an object in fieldMappings
MappedSources ==
  {"CloudTrailRawEvents", "LW_CFG_AWS_EC2_INSTANCES", "LW_CFG_AWS_S3",
   "ContainerVulnDetails", "VulnDetails"}

\* the fieldMappings table of mapFieldName ("" when there is no entry)
fieldMappings(dataSource, filterKey) ==
  CASE dataSource = "CloudTrailRawEvents" /\ filterKey = "resource_type" -> "EVENT_NAME"
    [] dataSource = "CloudTrailRawEvents" /\ filterKey = "status" -> "ERROR_CODE"
    [] dataSource = "CloudTrailRawEvents" /\ filterKey = "event_source" -> "EVENT_SOURCE"
    [] dataSource = "CloudTrailRawEvents" /\ filterKey = "user_name" -> "EVENT"
    [] dataSource \in {"LW_CFG_AWS_EC2_INSTANCES", "LW_CFG_AWS_S3"} /\ filterKey = "region" ->
         "RESOURCE_REGION"
    [] dataSource \in {"LW_CFG_AWS_EC2_INSTANCES", "LW_CFG_AWS_S3"} /\ filterKey = "account" ->
         "ACCOUNT_ID"
    [] dataSource \in {"LW_CFG_AWS_EC2_INSTANCES", "LW_CFG_AWS_S3"} /\ filterKey = "resource_type" ->
         "RESOURCE_TYPE"
    [] dataSource \in {"LW_CFG_AWS_EC2_INSTANCES", "LW_CFG_AWS_S3"} /\ filterKey = "status" ->
         "RESOURCE_CONFIG"
    [] dataSource \in {"ContainerVulnDetails", "VulnDetails"} /\ filterKey = "severity" -> "SEVERITY"
    [] dataSource \in {"ContainerVulnDetails", "VulnDetails"} /\ filterKey = "cve_id" -> "CVE_ID"
    [] dataSource \in {"ContainerVulnDetails", "VulnDetails"} /\ filterKey = "risk_score" -> "CVE_SCORE"
    [] dataSource = "ContainerVulnDetails" /\ filterKey = "image_digest" -> "IMAGE_DIGEST"
    [] OTHER -> ""

\* mapping?.[filterKey]: the entry of the table or, on an object of the table,
\* an inherited property ("" when undefined)
StaticFieldMapping(dataSource, filterKey) ==
  IF fieldMappings(dataSource, filterKey) # "" THEN fieldMappings(dataSource, filterKey)
  ELSE IF dataSource \in MappedSources /\ filterKey \in ObjectPrototype
  THEN Inherited(filterKey)
  ELSE ""

\* the fields mapFieldName looks through; try { ... } catch: an error of the
\* explorer leaves the static fallback
FieldsOf(e) ==
  IF ~e.threw /\ IsSome(e.ret) /\ IsSome(Get(e.ret).fields)
  THEN Get(Get(e.ret).fields) ELSE <<>>

\* the lookups of mapFieldName in their order: exact name, partial name or
\* description, static table, upper-cased key
MatchField(fields, key, static, filterKey) ==
  LET exact   == {i \in 1..Len(fields) : ToLowerCase(fields[i].name) = key}
      partial == {i \in 1..Len(fields) :
                    \/ Includes(ToLowerCase(fields[i].name), key)
                    \/ (fields[i].description # ""
                        /\ Includes(ToLowerCase(fields[i].description), key))}
  IN  IF exact # {} THEN fields[MinOf(exact)].name
      ELSE IF partial # {} THEN fields[MinOf(partial)].name
      ELSE IF static # "" THEN static
      ELSE ToUpperCase(filterKey)

\* mapFieldName, once exploreDataSource returned e
ResolveField(e, filterKey, dataSource) ==
  [ret |-> MatchField(FieldsOf(e), ToLowerCase(filterKey),
                      StaticFieldMapping(dataSource, filterKey), filterKey),
   threw |-> FALSE, cat |-> e.cat, executed |-> e.executed]

\* mapFieldName(filterKey, dataSource): the field name, the catalog afterwards,
\* the number of calls of the execution collaborator
mapFieldName(cat, filterKey, dataSource, exec) ==
  ResolveField(exploreDataSource(cat, dataSource, exec), filterKey, dataSource)

\* inferDataSourceFromQuery(query)
inferDataSourceFromQuery(query) ==
  LET lowerQuery == ToLowerCase(query)
  IN  IF IncludesAny(lowerQuery, {"compliance", "cis", "benchmark"}) THEN "CloudTrailRawEvents"
      ELSE IF IncludesAny(lowerQuery, {"vulnerabilit", "cve"})
      THEN (IF Includes(lowerQuery, "container") THEN "ContainerVulnDetails"
            ELSE "CloudTrailRawEvents")
      ELSE IF IncludesAny(lowerQuery, {"kubernetes", "k8s"}) THEN "LW_ACT_K8S_AUDIT"
      ELSE IF IncludesAny(lowerQuery, {"network", "connection"}) THEN "CloudTrailRawEvents"
      ELSE IF IncludesAny(lowerQuery, {"user", "login", "auth"}) THEN "CloudTrailRawEvents"
      ELSE "CloudTrailRawEvents"

\* getReturnFields(source, dataSource)
getReturnFields(source, dataSource) ==
  IF IsSome(dataSource) /\ Len(Get(dataSource).commonFields) > 0
  THEN Get(dataSource).commonFields
  ELSE CASE source = "CloudTrailRawEvents" ->
              <<"INSERT_ID", "INSERT_TIME", "EVENT_TIME", "EVENT_NAME", "EVENT_SOURCE",
                "ERROR_CODE", "EVENT">>
         [] source \in {"LW_CFG_AWS_EC2_INSTANCES", "LW_CFG_AWS_S3"} ->
              <<"RESOURCE_ID", "RESOURCE_REGION", "ACCOUNT_ID", "RESOURCE_TYPE",
                "RESOURCE_CONFIG", "URN", "API_KEY">>
         [] source = "ContainerVulnDetails" ->
              <<"IMAGE_DIGEST", "SEVERITY", "CVE_ID", "NAMESPACE", "VULNERABILITY_ID",
                "ASSESSMENT_RUN_ID">>
         [] source = "LW_ACT_K8S_AUDIT" ->
              <<"CLUSTER_NAME", "NAMESPACE", "RESOURCE_TYPE", "ACTION", "EVENT_TIME">>
         [] OTHER ->
              <<"INSERT_ID", "INSERT_TIME", "EVENT_TIME", "EVENT_NAME", "EVENT_SOURCE">>

\* the condition buildLQLQuery renders for one filter
FilterCondition(fieldName, value) ==
  IF StartsWith(value, ">=") \/ StartsWith(value, "<=")
  THEN "r." \o fieldName \o " " \o SubSeq(value, 1, 2) \o " " \o Trim(From(value, 3))
  ELSE IF value = "true" \/ value = "false"
  THEN "r." \o fieldName \o " = " \o value
  ELSE IF Includes(value, ",")
  THEN LET vs == SplitOn(value, ",")
       IN  "(" \o Join([i \in 1..Len(vs) |-> "r." \o fieldName \o " = '" \o Trim(vs[i]) \o "'"],
                       " or ") \o ")"
  ELSE "r." \o fieldName \o " = '" \o value \o "'"

\* one turn of the loop of buildLQLQuery, once mapFieldName returned m
AddCondition(acc, m, value) ==
  [conds |-> Append(acc.conds, FilterCondition(m.ret, value)),
   threw |-> acc.threw \/ m.threw,
   cat |-> m.cat, executed |-> acc.executed + m.executed]

\* the loop of buildLQLQuery over the filters: the conditions, the catalog, the
\* number of calls of the execution collaborator
RECURSIVE FilterConditions(_, _, _, _)
FilterConditions(acc, filters, source, exec) ==
  IF filters = <<>> THEN acc
  ELSE FilterConditions(
         AddCondition(acc, mapFieldName(acc.cat, Head(filters)[1], source, exec),
                      Head(filters)[2]),
         Tail(filters), source, exec)

\* the source buildLQLQuery selects from
SourceOf(dataSource, originalQuery) ==
  IF IsSome(dataSource) /\ Get(dataSource).lqlSource # ""
  THEN Get(dataSource).lqlSource
  ELSE inferDataSourceFromQuery(originalQuery)

\* the text buildLQLQuery assembles from the source, the conditions of the
\* filters and the lower-cased original query
QueryText(source, conds, lower, dataSource) ==
  LET c1     == IF (Includes(lower, "fail") \/ Includes(lower, "failed"))
                   /\ source = "CloudTrailRawEvents"
                THEN Append(conds, "r.ERROR_CODE is not null")
                ELSE conds
      c2     == IF Includes(lower, "critical") /\ source = "CloudTrailRawEvents"
                THEN Append(c1, "(r.ERROR_CODE is not null or r.EVENT_NAME like '%Delete%' or r.EVENT_NAME like '%Terminate%')")
                ELSE c1
      head   == "{\n  source {\n    " \o source \o " r\n  }"
      filter == IF Len(c2) > 0
                THEN "\n  filter {\n    " \o Join(c2, "\n    and ") \o "\n  }"
                ELSE ""
      return == "\n  return distinct {\n    "
                \o Join(getReturnFields(source, dataSource), ",\n    ") \o "\n  }\n}"
  IN  head \o filter \o return

\* buildLQLQuery, once the loop over the filters returned fc
Assemble(source, fc, lower, dataSource) ==
  [ret |-> QueryText(source, fc.conds, lower, dataSource), threw |-> fc.threw,
   cat |-> fc.cat, executed |-> fc.executed]

\* buildLQLQuery from the selected source on
BuildFrom(cat, source, dataSource, filters, originalQuery, exec) ==
  Assemble(source,
           FilterConditions([conds |-> <<>>, threw |-> FALSE, cat |-> cat, executed |-> 0],
                            filters, source, exec),
           ToLowerCase(originalQuery), dataSource)

\* buildLQLQuery(dataSource, pattern, filters, originalQuery)
buildLQLQuery(cat, dataSource, pattern, filters, originalQuery, exec) ==
  BuildFrom(cat, SourceOf(dataSource, originalQuery), dataSource, filters,
            originalQuery, exec)

\* generateName(query)
generateName(query) ==
  LET words == SelectSeq(SplitWs(StripNonWord(ToLowerCase(query))),
                         LAMBDA w : Len(w) > 2
                                    /\ w \notin {"show", "get", "find", "list", "with", "that", "have"})
  IN  "lacework-" \o Join(Slice(words, 4), "-")

(***************************************************************************)
(* A JavaScript number between 0 and 2 is an IEEE 754 double.  It is kept  *)
(* exactly, as a multiple of 2^-55 in two limbs: hi * 2^28 + lo.  A double *)
(* below 1 has 53 significant bits, so at least 1/2 it is a multiple of 4  *)
(* units and from 1 on a multiple of 8; a sum is rounded to the nearest    *)
(* such multiple, a tie to the one with an even significand.               *)
(***************************************************************************)
Limb == 268435456

Double(hi, lo) == [hi |-> hi, lo |-> lo]

\* the literals 0.5, 0.2, 0.1, 0.9 and 1.0
Half == Double(67108864, 0)
PointTwo == Double(26843545, 161061274)
PointOne == Double(13421772, 214748365)
PointNine == Double(120795955, 53687092)
One == Double(134217728, 0)

DoubleLeq(a, b) == a.hi < b.hi \/ (a.hi = b.hi /\ a.lo <= b.lo)

\* the exact sum of two numbers
ExactSum(a, b) ==
  Double(a.hi + b.hi + ((a.lo + b.lo) \div Limb), (a.lo + b.lo) % Limb)

\* the spacing of the doubles around a number of at least 1/2
Quantum(x) == IF x.hi < One.hi THEN 4 ELSE 8

\* the number rounded to the nearest double, x being at least 1/2
RoundToDouble(x) ==
  LET q    == Quantum(x)
      r    == x.lo % q
      down == Double(x.hi, x.lo - r)
      up   == ExactSum(down, Double(0, q))
  IN  IF r = 0 THEN x
      ELSE IF 2 * r < q THEN down
      ELSE IF 2 * r > q THEN up
      ELSE IF (down.lo \div q) % 2 = 0 THEN down
      ELSE up

\* a + b of two numbers whose sum is at least 1/2
DoubleAdd(a, b) == RoundToDouble(ExactSum(a, b))

\* Math.min
MathMin(a, b) == IF DoubleLeq(a, b) THEN a ELSE b

\* calculateConfidence with the sum taken in the reals, in tenths
calculateConfidenceExactly(dataSource, pattern, filters) ==
  LET c == 5 + (IF IsSome(dataSource) THEN 2 ELSE 0)
             + (IF IsSome(pattern) THEN 2 ELSE 0)
             + (IF Len(MapKeys(filters)) > 0 THEN 1 ELSE 0)
  IN  CASE c = 5 -> Half
        [] c = 6 -> Double(80530636, 214748364)
        [] c = 7 -> Double(93952409, 161061272)
        [] c = 8 -> Double(107374182, 107374184)
        [] c = 9 -> PointNine
        [] OTHER -> One

\* calculateConfidence(dataSource, pattern, filters)
calculateConfidence(dataSource, pattern, filters) ==
  LET c1 == IF IsSome(dataSource) THEN DoubleAdd(Half, PointTwo) ELSE Half
      c2 == IF IsSome(pattern) THEN DoubleAdd(c1, PointTwo) ELSE c1
      c3 == IF Len(MapKeys(filters)) > 0 THEN DoubleAdd(c2, PointOne) ELSE c2
  IN  MathMin(c3, One)

\* the LQLQueryResult of generateFromNaturalLanguage, once identifyDataSource
\* returned d and buildLQLQuery returned b
Translated(d, pattern, filters, b, naturalQuery, lowerQuery, t) ==
  [threw |-> d.threw \/ b.threw,
   ret |-> [query |-> b.ret,
            category |-> IF IsSome(pattern) THEN Get(pattern).category ELSE "general",
            suggestedName |-> IF IsSome(pattern) THEN Get(pattern).suggestedName
                              ELSE generateName(naturalQuery),
            parameters |-> MapSpread(IF IsSome(pattern) THEN Get(pattern).parameters ELSE <<>>,
                                     filters),
            timeRange |-> extractTimeRange(lowerQuery, t),
            confidence |-> calculateConfidence(d.ds, pattern, filters)],
   cat |-> b.cat, listed |-> d.listed, executed |-> b.executed]

\* generateFromNaturalLanguage from the call of buildLQLQuery on
TranslateWith(d, pattern, filters, naturalQuery, lowerQuery, exec, t) ==
  Translated(d, pattern, filters,
             buildLQLQuery(d.cat, d.ds, pattern, filters, naturalQuery, exec),
             naturalQuery, lowerQuery, t)

\* generateFromNaturalLanguage(naturalQuery) at instant t, when the listing
\* collaborator answers `listing` and a sample query ends as `exec`: the
\* LQLQueryResult, whether an error escaped, the catalog afterwards and the
\* numbers of collaborator calls
generateFromNaturalLanguage(cat, naturalQuery, listing, exec, t) ==
  TranslateWith(identifyDataSource(cat, ToLowerCase(naturalQuery), listing, t),
                matchQueryPattern(naturalQuery),
                extractFilters(ToLowerCase(naturalQuery)),
                naturalQuery, ToLowerCase(naturalQuery), exec, t)

(***************************************************************************)
(* DynamicToolRegistry: pure helpers.                                      *)
(***************************************************************************)
\* words that generateToolName drops
ToolNameStopWords ==
  {"show", "get", "find", "list", "with", "that", "have", "the", "and", "for", "me", "all"}

ToolNamePrefix(category) ==
  CASE category = "aws"        -> "get-aws"
    [] category = "containers" -> "get-container"
    [] category = "compliance" -> "get-compliance"
    [] category = "threats"    -> "find-threat"
    [] OTHER                   -> "get"

\* generateToolName(description, category)
generateToolName(description, category) ==
  LET words  == SelectSeq(SplitWs(StripNonWord(ToLowerCase(description))),
                          LAMBDA w : Len(w) > 2 /\ w \notin ToolNameStopWords)
      suffix == Join(Slice(words, 3), "-")
  IN  ToolNamePrefix(category) \o "-" \o suffix

\* position after an optional [-_] at position j
SkipSep(s, j) == IF j <= Len(s) /\ IsSep(Char(s, j)) THEN j + 1 ELSE j

\* a[-_]?b matched at position i: the position after it, 0 when it does not match
\* (b may be empty: then the optional separator is taken when it is there)
PrefixEnd(s, i, a, b) ==
  IF ~LitAt(s, i, a) THEN 0
  ELSE LET j == i + Len(a)
       IN  IF b = "" THEN j
           ELSE IF LitAt(s, SkipSep(s, j), b) THEN SkipSep(s, j) + Len(b)
           ELSE IF LitAt(s, j, b) THEN j + Len(b)
           ELSE 0

\* the keyword of ks that starts at position q of s ("" when none does)
KeywordAt(s, q, ks) ==
  IF \E k \in ks : LitAt(s, q, k) THEN CHOOSE k \in ks : LitAt(s, q, k) ELSE ""

\* first position >= from where a keyword of ks starts, 0 when there is none
FirstKeyword(s, from, ks) ==
  LET Q == {q \in from..Len(s) : \E k \in ks : LitAt(s, q, k)}
  IN  IF Q = {} THEN 0 ELSE MinOf(Q)

LastKeyword(s, from, ks) ==
  LET Q == {q \in from..Len(s) : \E k \in ks : LitAt(s, q, k)}
  IN  IF Q = {} THEN 0 ELSE CHOOSE m \in Q : \A n \in Q : n <= m

NoMatch == [ok |-> FALSE, g |-> <<>>]

\* /a[-_]?b[-_]?(.*)/ : the leftmost match, one group
MatchPrefixRest(s, a, b) ==
  LET I == {i \in 1..Len(s) : PrefixEnd(s, i, a, b) # 0}
  IN  IF I = {} THEN NoMatch
      ELSE LET e == PrefixEnd(s, MinOf(I), a, b)
           IN  [ok |-> TRUE, g |-> <<From(s, SkipSep(s, e))>>]

\* the lazy group (.*?)[-_]? that starts at p and ends where the keyword at q starts
LazyGroup(s, p, q) ==
  IF q - 1 >= p /\ IsSep(Char(s, q - 1)) THEN SubSeq(s, p, q - 2) ELSE SubSeq(s, p, q - 1)

\* /a[-_]?b[-_]?(.*?)[-_]?(?:k1|k2)[-_]?(.*)/ : two groups, the first one lazy
MatchLazyWith(s, a, b, ks) ==
  LET I == {i \in 1..Len(s) :
              PrefixEnd(s, i, a, b) # 0 /\ FirstKeyword(s, PrefixEnd(s, i, a, b), ks) # 0}
  IN  IF I = {} THEN NoMatch
      ELSE LET e == PrefixEnd(s, MinOf(I), a, b)
               p == SkipSep(s, e)
               q == FirstKeyword(s, e, ks)
               k == KeywordAt(s, q, ks)
           IN  [ok |-> TRUE,
                g  |-> <<LazyGroup(s, p, q), From(s, SkipSep(s, q + Len(k)))>>]

\* /a[-_]?(h1|h2)[-_]?(.*?)[-_]?(k1|k2|k3)/ : three groups
MatchHeadLazyKey(s, a, hs, ks) ==
  LET HeadEnd(i) == IF \E h \in hs : PrefixEnd(s, i, a, h) # 0
                    THEN PrefixEnd(s, i, a, CHOOSE h \in hs : PrefixEnd(s, i, a, h) # 0)
                    ELSE 0
      I == {i \in 1..Len(s) : HeadEnd(i) # 0 /\ FirstKeyword(s, HeadEnd(i), ks) # 0}
  IN  IF I = {} THEN NoMatch
      ELSE LET i == MinOf(I)
               h == CHOOSE x \in hs : PrefixEnd(s, i, a, x) # 0
               e == HeadEnd(i)
               q == FirstKeyword(s, e, ks)
           IN  [ok |-> TRUE,
                g  |-> <<h, LazyGroup(s, SkipSep(s, e), q), KeywordAt(s, q, ks)>>]

\* /a[-_]?(.*?)[-_]?(k1|k2)/ : two groups
MatchLazyKey(s, a, ks) ==
  LET I == {i \in 1..Len(s) : LitAt(s, i, a) /\ FirstKeyword(s, i + Len(a), ks) # 0}
  IN  IF I = {} THEN NoMatch
      ELSE LET e == MinOf(I) + Len(a)
               q == FirstKeyword(s, e, ks)
           IN  [ok |-> TRUE,
                g  |-> <<LazyGroup(s, SkipSep(s, e), q), KeywordAt(s, q, ks)>>]

\* /a[-_]?(.*)[-_]?k[-_]?(.*)/ : two groups, the first one greedy
MatchGreedyWith(s, a, k) ==
  LET I == {i \in 1..Len(s) : LitAt(s, i, a) /\ LastKeyword(s, i + Len(a), {k}) # 0}
  IN  IF I = {} THEN NoMatch
      ELSE LET e == MinOf(I) + Len(a)
               q == LastKeyword(s, e, {k})
               p == IF SkipSep(s, e) <= q THEN SkipSep(s, e) ELSE e
           IN  [ok |-> TRUE,
                g  |-> <<SubSeq(s, p, q - 1), From(s, SkipSep(s, q + Len(k)))>>]

\* the patterns of inferNaturalLanguage in their order, each with its template
NamePatternCount == 12

NamePatternMatch(n, s) ==
  CASE n = 1  -> MatchLazyWith(s, "get", "aws", {"with", "having"})
    [] n = 2  -> MatchPrefixRest(s, "list", "aws")
    [] n = 3  -> MatchPrefixRest(s, "find", "aws")
    [] n = 4  -> MatchPrefixRest(s, "get", "aws")
    [] n = 5  -> MatchHeadLazyKey(s, "get", {"high", "critical"},
                                  {"vulnerabilit", "risk", "threat"})
    [] n = 6  -> MatchLazyKey(s, "list", {"fail", "violation"})
    [] n = 7  -> MatchLazyKey(s, "find", {"compliance", "security"})
    [] n = 8  -> MatchPrefixRest(s, "get", "container")
    [] n = 9  -> MatchPrefixRest(s, "list", "k8s")
    [] n = 10 -> MatchGreedyWith(s, "get", "with")
    [] n = 11 -> MatchPrefixRest(s, "list", "")
    [] n = 12 -> MatchPrefixRest(s, "find", "")

NamePatternTemplate(n) ==
  CASE n = 1  -> "show me AWS $1 with $2"
    [] n = 2  -> "list all AWS $1"
    [] n = 3  -> "find AWS $1"
    [] n = 4  -> "show me AWS $1"
    [] n = 5  -> "show me $1 $2 $3"
    [] n = 6  -> "list all $1 $2"
    [] n = 7  -> "find $1 $2 issues"
    [] n = 8  -> "show me container $1"
    [] n = 9  -> "list kubernetes $1"
    [] n = 10 -> "show me $1 with $2"
    [] n = 11 -> "list all $1"
    [] n = 12 -> "find $1"

GroupMarker(i) == CASE i = 1 -> "$1" [] i = 2 -> "$2" [] i = 3 -> "$3"

\* the loop that substitutes the groups into the template
RECURSIVE FillTemplate(_, _, _)
FillTemplate(result, g, i) ==
  IF i > Len(g) THEN result
  ELSE FillTemplate(ReplaceFirst(result, GroupMarker(i), Trim(ReplaceSeps(g[i]))), g, i + 1)

\* toolName.replace(/^(get|list|find|show)\s+/, 'show me ')
ReplaceLeadingVerb(s) ==
  LET V == {v \in {"get", "list", "find", "show"} :
              StartsWith(s, v) /\ Len(s) > Len(v) /\ IsSpace(Char(s, Len(v) + 1))}
  IN  IF V = {} THEN s
      ELSE LET v == CHOOSE x \in V : TRUE
           IN  "show me " \o TrimStart(From(s, Len(v) + 1))

\* The arguments of a tool call.  query, intent and fieldPattern are optional;
\* "" stands for an absent severity, region, dataSource, pattern or
\* dataSourcePattern; filters is a parameter map and fields a sequence of
\* names.
NoArgs ==
  [defined |-> TRUE, query |-> None, severity |-> "", region |-> "",
   saveAsTemplate |-> FALSE, intent |-> None, dataSource |-> "",
   filters |-> <<>>, fields |-> <<>>, pattern |-> "",
   fieldPattern |-> None, dataSourcePattern |-> ""]

\* the request carries no arguments
Undefined == [NoArgs EXCEPT !.defined = FALSE]

ArgsOf(query, severity, region) ==
  [NoArgs EXCEPT !.query = query, !.severity = severity, !.region = region]

\* inferNaturalLanguage(toolName, args): the inferred phrase ("" is falsy)
inferNaturalLanguage(toolName, args) ==
  LET M == {n \in 1..NamePatternCount : NamePatternMatch(n, toolName).ok}
  IN  IF M # {}
      THEN FillTemplate(NamePatternTemplate(MinOf(M)), NamePatternMatch(MinOf(M), toolName).g, 1)
      ELSE IF args.defined /\ IsSome(args.query) /\ Get(args.query) # ""
      THEN Get(args.query)
      ELSE Trim(ReplaceLeadingVerb(ReplaceSeps(toolName)))

(***************************************************************************)
(* DynamicToolRegistry.                                                    *)
(* A DynamicTool is a JavaScript object: the registry, an exported array   *)
(* and an imported array may hold the same object.  The objects live in    *)
(* heap, a sequence, and are referred to by their index; reg.tools is the  *)
(* Map from names to objects in insertion order.  The generator closure of *)
(* a tool is the pair of values it captured.                               *)
(***************************************************************************)
\* a tool result: the text block's heading, the data printed under it
TextResult(text, data) == [isError |-> FALSE, text |-> text, data |-> data]
ErrorResult(text) == [isError |-> TRUE, text |-> text, data |-> <<>>]

\* error.message of the error thrown by executeQuery
ExecErrorMessage == "Query execution failed"
\* error.message of reading a property of undefined
TypeErrorMessage == "Cannot read properties of undefined"

EmptyRegistry == [heap |-> <<>>, tools |-> <<>>]

\* generateInputSchema(lqlQuery): the properties, each with its enum
RECURSIVE SchemaProperties(_, _)
SchemaProperties(properties, parameters) ==
  IF parameters = <<>> THEN properties
  ELSE LET key == Head(parameters)[1]
       IN  SchemaProperties(
             CASE key = "severity" ->
                    MapSet(properties, "severity", <<"low", "medium", "high", "critical">>)
               [] key = "cloud_provider" ->
                    MapSet(properties, "cloudProvider", <<"aws", "gcp", "azure">>)
               [] key = "region" -> MapSet(properties, "region", <<>>)
               [] key = "status" ->
                    MapSet(properties, "status", <<"active", "inactive", "fail", "pass">>)
               [] key = "resource_type" -> MapSet(properties, "resourceType", <<>>)
               [] OTHER -> MapSet(properties, key, <<>>),
             Tail(parameters))

generateInputSchema(lqlQuery) ==
  [type |-> "object",
   properties |-> SchemaProperties(<<<<"startTime", <<>>>>, <<"endTime", <<>>>>>>,
                                   lqlQuery.parameters),
   required |-> <<>>]

\* createDynamicTool(request) at instant t: the new object
createDynamicTool(name, naturalLanguage, lqlQuery, t) ==
  Some([name |-> name,
        description |-> "Dynamically generated tool: " \o naturalLanguage,
        inputSchema |-> generateInputSchema(lqlQuery),
        generator |-> [lqlQuery |-> lqlQuery, originalDescription |-> naturalLanguage],
        queryPattern |-> lqlQuery,
        created |-> toISOString(t),
        lastUsed |-> None,
        usageCount |-> 0])

\* tool.lastUsed = new Date().toISOString(); tool.usageCount++
UpdateUsage(heap, id, t) ==
  [heap EXCEPT ![id].lastUsed = toISOString(t), ![id].usageCount = @ + 1]

\* registerToolFromQuery from the generated name on
RegisterAs(reg, toolName, lqlQuery, originalQuery, t) ==
  LET tool == createDynamicTool(toolName, originalQuery, lqlQuery, t)
  IN  IF MapHas(reg.tools, toolName)
      THEN [reg EXCEPT !.heap = UpdateUsage(reg.heap, MapGet(reg.tools, toolName), t)]
      ELSE IF IsSome(tool)
      THEN [heap |-> Append(reg.heap, Get(tool)),
            tools |-> MapSet(reg.tools, toolName, Len(reg.heap) + 1)]
      ELSE reg

\* registerToolFromQuery without the test for an existing tool: C1 does not
\* hold of it
registerToolFromQueryAnew(reg, lqlQuery, originalQuery, t) ==
  [heap |-> Append(reg.heap,
                   Get(createDynamicTool(generateToolName(originalQuery, lqlQuery.category),
                                         originalQuery, lqlQuery, t))),
   tools |-> MapSet(reg.tools, generateToolName(originalQuery, lqlQuery.category),
                    Len(reg.heap) + 1)]

\* a variant of registerToolFromQuery that stores the new translation in the
\* tool it finds
registerToolFromQueryRenewed(reg, lqlQuery, originalQuery, t) ==
  LET toolName == generateToolName(originalQuery, lqlQuery.category)
      r        == RegisterAs(reg, toolName, lqlQuery, originalQuery, t)
  IN  IF MapHas(reg.tools, toolName)
      THEN [r EXCEPT !.heap[MapGet(reg.tools, toolName)].queryPattern = lqlQuery]
      ELSE r

\* registerToolFromQuery(lqlQuery, originalQuery) at instant t
registerToolFromQuery(reg, lqlQuery, originalQuery, t) ==
  RegisterAs(reg, generateToolName(originalQuery, lqlQuery.category), lqlQuery,
             originalQuery, t)

\* addWhereCondition(query, condition)
addWhereCondition(query, condition) ==
  IF Includes(query, "WHERE")
  THEN ReplaceFirst(query, "ORDER BY", "  AND " \o condition \o "\nORDER BY")
  ELSE ReplaceFirst(query, "ORDER BY", "WHERE " \o condition \o "\nORDER BY")

\* the final query of executeDynamicQuery
FinalQuery(lqlQuery, args) ==
  LET q1 == IF args.severity # "" /\ ~Includes(lqlQuery.query, "SEVERITY")
            THEN addWhereCondition(lqlQuery.query, "SEVERITY = '" \o args.severity \o "'")
            ELSE lqlQuery.query
  IN  IF args.region # "" /\ ~Includes(q1, "AWS_REGION")
      THEN addWhereCondition(q1, "AWS_REGION = '" \o args.region \o "'")
      ELSE q1

\* the usage update of executeDynamicQuery: the tool looked up under toolName
BumpUsage(reg, toolName, t) ==
  IF MapHas(reg.tools, toolName)
  THEN [reg EXCEPT !.heap = UpdateUsage(reg.heap, MapGet(reg.tools, toolName), t)]
  ELSE reg

\* a variant of executeDynamicQuery that submits the query once more after a
\* failure
DynamicResultRetried(reg1, lqlQuery, args, originalDescription, exec) ==
  IF ~args.defined
  THEN [ret |-> ErrorResult("Dynamic Tool Execution Error: " \o TypeErrorMessage),
        threw |-> FALSE, reg |-> reg1, executed |-> 0, query |-> None]
  ELSE IF exec.kind = "throw"
  THEN [ret |-> ErrorResult("Dynamic Tool Execution Error: " \o ExecErrorMessage),
        threw |-> FALSE, reg |-> reg1, executed |-> 2,
        query |-> Some(FinalQuery(lqlQuery, args))]
  ELSE [ret |-> TextResult("Dynamic Tool Execution: " \o originalDescription, exec.rows),
        threw |-> FALSE, reg |-> reg1, executed |-> 1,
        query |-> Some(FinalQuery(lqlQuery, args))]

\* executeDynamicQuery after the usage update left the registry reg1
DynamicResult(reg1, lqlQuery, args, originalDescription, exec) ==
  IF ~args.defined
  THEN \* args.severity of undefined: a TypeError, caught
       [ret |-> ErrorResult("Dynamic Tool Execution Error: " \o TypeErrorMessage),
        threw |-> FALSE, reg |-> reg1, executed |-> 0, query |-> None]
  ELSE IF exec.kind = "throw"
  THEN [ret |-> ErrorResult("Dynamic Tool Execution Error: " \o ExecErrorMessage),
        threw |-> FALSE, reg |-> reg1, executed |-> 1,
        query |-> Some(FinalQuery(lqlQuery, args))]
  ELSE [ret |-> TextResult("Dynamic Tool Execution: " \o originalDescription, exec.rows),
        threw |-> FALSE, reg |-> reg1, executed |-> 1,
        query |-> Some(FinalQuery(lqlQuery, args))]

\* executeDynamicQuery(lqlQuery, args, originalDescription) at instant t, when
\* the execution collaborator ends as `exec`: the result, the registry
\* afterwards, the number of calls of the execution collaborator
executeDynamicQuery(reg, lqlQuery, args, originalDescription, exec, t) ==
  DynamicResult(BumpUsage(reg, generateToolName(originalDescription, lqlQuery.category), t),
                lqlQuery, args, originalDescription, exec)

\* what executeTool returns when the generator returned r
GeneratorReturn(r) ==
  [ret |-> Some(r.ret), threw |-> r.threw, reg |-> r.reg,
   executed |-> r.executed, query |-> r.query]

\* tool.generator(args): the closure of createDynamicTool
Generator(reg, g, args, exec, t) ==
  executeDynamicQuery(reg, g.lqlQuery, args, g.originalDescription, exec, t)

\* executeTool(name, args): ret is None for null
executeTool(reg, name, args, exec, t) ==
  IF MapHas(reg.tools, name)
  THEN GeneratorReturn(Generator(reg, reg.heap[MapGet(reg.tools, name)].generator,
                                 args, exec, t))
  ELSE [ret |-> None, threw |-> FALSE, reg |-> reg, executed |-> 0, query |-> None]

\* the registration of generateToolFromQuery under the name derived from the
\* phrase instead of the requested one: C5 does not hold of it
GeneratedAsDerived(reg, toolName, naturalLanguage, g, t) ==
  LET tool == createDynamicTool(toolName, naturalLanguage, g.ret, t)
  IN  IF g.threw \/ ~IsSome(tool)
      THEN [ret |-> FALSE, threw |-> FALSE, reg |-> reg, cat |-> g.cat]
      ELSE [ret |-> TRUE, threw |-> FALSE,
            reg |-> [heap |-> Append(reg.heap, Get(tool)),
                     tools |-> MapSet(reg.tools,
                                      generateToolName(naturalLanguage, g.ret.category),
                                      Len(reg.heap) + 1)],
            cat |-> g.cat]

\* generateToolFromQuery, once generateFromNaturalLanguage returned g
Generated(reg, toolName, naturalLanguage, g, t) ==
  LET tool == createDynamicTool(toolName, naturalLanguage, g.ret, t)
  IN  IF g.threw
      THEN [ret |-> FALSE, threw |-> FALSE, reg |-> reg, cat |-> g.cat]
      ELSE IF IsSome(tool)
      THEN [ret |-> TRUE, threw |-> FALSE,
            reg |-> [heap |-> Append(reg.heap, Get(tool)),
                     tools |-> MapSet(reg.tools, toolName, Len(reg.heap) + 1)],
            cat |-> g.cat]
      ELSE [ret |-> FALSE, threw |-> FALSE, reg |-> reg, cat |-> g.cat]

\* generateToolFromQuery from the inferred phrase on
GenerateFrom(reg, cat, toolName, naturalLanguage, listing, exec, t) ==
  IF naturalLanguage = ""
  THEN [ret |-> FALSE, threw |-> FALSE, reg |-> reg, cat |-> cat]
  ELSE Generated(reg, toolName, naturalLanguage,
                 generateFromNaturalLanguage(cat, naturalLanguage, listing, exec, t), t)

\* generateToolFromQuery(toolName, args) at instant t: the boolean returned,
\* the registry and the catalog afterwards; every error is caught
generateToolFromQuery(reg, cat, toolName, args, listing, exec, t) ==
  GenerateFrom(reg, cat, toolName, inferNaturalLanguage(toolName, args), listing, exec, t)

\* Map.prototype.delete
MapDelete(m, k) == SelectSeq(m, LAMBDA e : e[1] # k)

\* the instant pruneUnusedTools compares with: lastUsed, or created
LastActivity(tool) ==
  IF IsSome(tool.lastUsed) THEN getTime(tool.lastUsed) ELSE getTime(tool.created)

\* the test of pruneUnusedTools without the usage count: C3 does not hold of it
PrunableByAge(tool, maxAge, t) == t - LastActivity(tool) > maxAge

\* the test of the loop of pruneUnusedTools
Prunable(tool, maxAge, t) == t - LastActivity(tool) > maxAge /\ tool.usageCount = 0

\* pruneUnusedTools(maxAge) at instant t: the count returned, the registry
pruneUnusedTools(reg, maxAge, t) ==
  LET kept == SelectSeq(reg.tools, LAMBDA e : ~Prunable(reg.heap[e[2]], maxAge, t))
  IN  [ret |-> Len(reg.tools) - Len(kept), reg |-> [reg EXCEPT !.tools = kept]]

\* exportTools(): the objects of the registry, in insertion order
exportTools(reg) == [i \in 1..Len(reg.tools) |-> reg.tools[i][2]]

\* importTools that stops after the first object: C4 does not hold of it
importFirstTool(reg, tools) ==
  IF tools = <<>> THEN reg
  ELSE [reg EXCEPT !.tools = MapSet(reg.tools, reg.heap[Head(tools)].name, Head(tools))]

\* importTools(tools): tools is a sequence of objects
RECURSIVE importTools(_, _)
importTools(reg, tools) ==
  IF tools = <<>> THEN reg
  ELSE importTools([reg EXCEPT !.tools = MapSet(reg.tools, reg.heap[Head(tools)].name,
                                                Head(tools))],
                   Tail(tools))

(***************************************************************************)
(* QueryBuilder.  A QueryBuildRequest carries the intent, the data source  *)
(* ("" when absent), the filters (a parameter map with string values) and  *)
(* the requested fields.                                                   *)
(***************************************************************************)
EndsWith(s, k) == Len(s) >= Len(k) /\ SubSeq(s, Len(s) - Len(k) + 1, Len(s)) = k

\* s.replace(/c/g, r) for a one-character pattern
RECURSIVE ReplaceAllChar(_, _, _)
ReplaceAllChar(s, c, r) ==
  IF s = "" THEN ""
  ELSE (IF Head(s) = c THEN r ELSE Head(s)) \o ReplaceAllChar(Tail(s), c, r)

\* the ladder of getFieldPriority over the upper-cased name
PriorityOf(name) ==
  CASE Includes(name, "ID") /\ ~Includes(name, "DIGEST") -> 100
    [] Includes(name, "TIME") -> 95
    [] Includes(name, "NAME") -> 90
    [] Includes(name, "TYPE") -> 85
    [] Includes(name, "STATUS") -> 80
    [] Includes(name, "REGION") -> 75
    [] Includes(name, "ACCOUNT") -> 70
    [] Includes(name, "USER") -> 65
    [] Includes(name, "ERROR") -> 60
    [] Includes(name, "SEVERITY") -> 55
    [] Includes(name, "SCORE") -> 50
    [] Includes(name, "SOURCE") -> 40
    [] Includes(name, "EVENT") -> 35
    [] Includes(name, "RESOURCE") -> 30
    [] Includes(name, "CONFIG") -> 10
    [] Includes(name, "DIGEST") -> 5
    [] OTHER -> 20

\* getFieldPriority(fieldName)
getFieldPriority(fieldName) == PriorityOf(ToUpperCase(fieldName))

\* Array.prototype.sort by descending priority (stable insertion sort)
RECURSIVE InsertByPriority(_, _)
InsertByPriority(sorted, x) ==
  IF sorted = <<>> THEN <<x>>
  ELSE IF getFieldPriority(x.name) > getFieldPriority(Head(sorted).name) THEN <<x>> \o sorted
  ELSE <<Head(sorted)>> \o InsertByPriority(Tail(sorted), x)

RECURSIVE SortByPriority(_)
SortByPriority(xs) ==
  IF xs = <<>> THEN <<>>
  ELSE InsertByPriority(SortByPriority(SubSeq(xs, 1, Len(xs) - 1)), xs[Len(xs)])

\* the first seven names of the sorted fields, and the sorted array
TopFields(sorted) ==
  [ret |-> [i \in 1..Len(Slice(sorted, 7)) |-> sorted[i].name],
   fields |-> Some(sorted)]

\* determineReturnFields(requestedFields, sourceInfo): the field names, and
\* the field array of sourceInfo afterwards (sort() orders it in place)
determineReturnFields(requestedFields, sourceInfo) ==
  IF Len(requestedFields) > 0
  THEN [ret |-> requestedFields, fields |-> sourceInfo.fields]
  ELSE IF IsSome(sourceInfo.fields) /\ Len(Get(sourceInfo.fields)) > 0
  THEN TopFields(SortByPriority(Get(sourceInfo.fields)))
  ELSE [ret |-> <<"*">>, fields |-> sourceInfo.fields]

\* the commonMappings table of mapFilterToField
CommonMappings ==
  <<<<"region", "RESOURCE_REGION">>, <<"account", "ACCOUNT_ID">>,
    <<"subscription", "SUBSCRIPTION_ID">>, <<"time", "EVENT_TIME">>,
    <<"user", "USER_NAME">>, <<"error", "ERROR_CODE">>, <<"severity", "SEVERITY">>,
    <<"status", "STATUS">>, <<"id", "RESOURCE_ID">>, <<"name", "RESOURCE_NAME">>,
    <<"type", "RESOURCE_TYPE">>, <<"resource_group", "RESOURCE_GROUP_NAME">>>>

\* commonMappings[key]: the entry of the table or an inherited property
CommonMapping(key) ==
  IF MapHas(CommonMappings, key) THEN MapGet(CommonMappings, key)
  ELSE IF key \in ObjectPrototype THEN Inherited(key)
  ELSE ""

\* the lookups of mapFilterToField in their order: direct, partial, common
\* mappings, upper-cased key
MatchFilter(fields, key, filterKey) ==
  LET direct  == {i \in 1..Len(fields) : ToLowerCase(fields[i].name) = key}
      partial == {i \in 1..Len(fields) :
                    \/ Includes(ToLowerCase(fields[i].name), key)
                    \/ (fields[i].description # ""
                        /\ Includes(ToLowerCase(fields[i].description), key))}
  IN  IF direct # {} THEN fields[MinOf(direct)].name
      ELSE IF partial # {} THEN fields[MinOf(partial)].name
      ELSE IF CommonMapping(key) # "" THEN CommonMapping(key)
      ELSE ToUpperCase(filterKey)

\* mapFilterToField(filterKey, sourceInfo)
mapFilterToField(filterKey, sourceInfo) ==
  MatchFilter(IF IsSome(sourceInfo.fields) THEN Get(sourceInfo.fields) ELSE <<>>,
              ToLowerCase(filterKey), filterKey)

\* the condition of a key that does not end with _not
PlainCondition(fieldName, value) ==
  IF Includes(value, "*")
  THEN "r." \o fieldName \o " like '" \o ReplaceAllChar(value, "*", "%") \o "'"
  ELSE IF StartsWith(value, ">=") \/ StartsWith(value, "<=")
  THEN "r." \o fieldName \o " " \o value
  ELSE "r." \o fieldName \o " = '" \o value \o "'"

\* one condition of buildFilterConditions, for a string value
BuilderCondition(key, value, sourceInfo) ==
  IF EndsWith(key, "_not")
  THEN "not r." \o mapFilterToField(ReplaceFirst(key, "_not", ""), sourceInfo)
       \o " = '" \o value \o "'"
  ELSE PlainCondition(mapFilterToField(key, sourceInfo), value)

\* buildFilterConditions(filters, sourceInfo)
buildFilterConditions(filters, sourceInfo) ==
  [i \in 1..Len(filters) |-> BuilderCondition(filters[i][1], filters[i][2], sourceInfo)]

\* the text constructLQLQuery assembles, once the conditions and the return
\* fields r are known
ConstructedQuery(dataSource, conditions, r) ==
  [ret |-> "{\n  source {\n    " \o dataSource \o " r\n  }"
           \o (IF Len(conditions) > 0
               THEN "\n  filter {\n    " \o Join(conditions, "\n    and ") \o "\n  }"
               ELSE "")
           \o "\n  return distinct {\n    " \o Join(r.ret, ",\n    ") \o "\n  }"
           \o "\n}",
   fields |-> r.fields]

\* constructLQLQuery(params): the query text and the field array afterwards
constructLQLQuery(dataSource, sourceInfo, request) ==
  ConstructedQuery(dataSource, buildFilterConditions(request.filters, sourceInfo),
                   determineReturnFields(request.fields, sourceInfo))

\* categorizeQuery(intent, sourceCategory)
categorizeQuery(intent, sourceCategory) ==
  LET intentLower == ToLowerCase(intent)
  IN  CASE IncludesAny(intentLower, {"security", "vuln"}) -> "security"
        [] IncludesAny(intentLower, {"compliance", "policy"}) -> "compliance"
        [] IncludesAny(intentLower, {"performance", "resource"}) -> "performance"
        [] IncludesAny(intentLower, {"discover", "explore"}) -> "discovery"
        [] OTHER -> ToLowerCase(sourceCategory)

\* the data source part of generateQueryName, from the lower-cased name
SourceSlug(lower) ==
  LET s1 == IF StartsWith(lower, "lw_cfg_") THEN From(lower, 8) ELSE lower
      s2 == IF StartsWith(s1, "lw_") THEN From(s1, 4) ELSE s1
  IN  ReplaceAllChar(s2, "_", "-")

\* generateQueryName(intent, dataSource)
generateQueryName(intent, dataSource) ==
  LET words == SelectSeq(SplitWs(StripNonWord(ToLowerCase(intent))),
                         LAMBDA w : Len(w) > 2
                                    /\ w \notin {"show", "get", "find", "list", "with",
                                                 "that", "have", "the", "and", "for"})
  IN  "query-" \o SourceSlug(ToLowerCase(dataSource)) \o "-" \o Join(Slice(words, 3), "-")

\* a QueryBuildRequest; intent is optional
BuildRequest(intent, dataSource, filters, fields) ==
  [intent |-> intent, dataSource |-> dataSource, filters |-> filters, fields |-> fields]

\* the catalog after sourceInfo.fields of sourceName was ordered in place: the
\* descriptor of the source cache and the entry of the field cache hold the
\* same array
WithFields(cat, sourceName, fields) ==
  [cat EXCEPT
     !.dsc = IF CacheHas(cat.dsc, sourceName)
             THEN CacheSet(cat.dsc, sourceName,
                           [Get(CacheGet(cat.dsc, sourceName)) EXCEPT !.fields = fields])
             ELSE cat.dsc,
     !.fc = [n \in DOMAIN cat.fc |->
               IF n = sourceName /\ IsSome(fields) THEN Get(fields) ELSE cat.fc[n]]]

\* the error buildTargetedQuery throws
BuildFailure(message, c, listed, executed) ==
  [threw |-> TRUE, message |-> message, ret |-> None, cat |-> c,
   listed |-> listed, executed |-> executed]

\* buildTargetedQuery, once constructLQLQuery returned q; an absent intent
\* fails in categorizeQuery, after the fields were ordered
BuildConstructed(s, dataSource, request, e, q) ==
  IF ~IsSome(request.intent)
  THEN BuildFailure(TypeErrorMessage, WithFields(e.cat, dataSource, q.fields),
                    s.listed, e.executed)
  ELSE [threw |-> FALSE, message |-> "",
        ret |-> Some([query |-> q.ret,
                      category |-> categorizeQuery(Get(request.intent), Get(e.ret).category),
                      suggestedName |-> generateQueryName(Get(request.intent), dataSource),
                      parameters |-> request.filters,
                      timeRange |-> None,
                      confidence |-> PointNine]),
        cat |-> WithFields(e.cat, dataSource, q.fields),
        listed |-> s.listed, executed |-> e.executed]

\* buildTargetedQuery, once exploreDataSource returned e
BuildExplored(s, dataSource, request, e) ==
  IF e.threw \/ ~IsSome(e.ret)
  THEN BuildFailure("Unable to explore data source: " \o dataSource, e.cat,
                    s.listed, e.executed)
  ELSE BuildConstructed(s, dataSource, request, e,
                        constructLQLQuery(dataSource, Get(e.ret), request))

\* buildTargetedQuery from the chosen data source on
BuildOn(s, dataSource, request, exec) ==
  BuildExplored(s, dataSource, request, exploreDataSource(s.cat, dataSource, exec))

\* buildTargetedQuery without a data source, once searchDataSources returned s
BuildSearched(s, request, exec) ==
  IF s.threw
  THEN BuildFailure("search failed", s.cat, s.listed, 0)
  ELSE IF Len(s.ret) = 0
  THEN BuildFailure("Unable to determine appropriate data source for query", s.cat,
                    s.listed, 0)
  ELSE BuildOn(s, s.ret[1].name, request, exec)

\* searchDataSources(undefined): discoverDataSources returned d, then
\* query.toLowerCase() is a TypeError
SearchUndefined(d) == BuildFailure(TypeErrorMessage, d.cat, d.listed, 0)

\* QueryBuilder.buildTargetedQuery(request) at instant t: the LQLQueryResult
\* or the error thrown, the catalog afterwards, the numbers of collaborator
\* calls
buildTargetedQuery(cat, request, listing, exec, t) ==
  IF request.dataSource # ""
  THEN BuildOn([ret |-> <<>>, threw |-> FALSE, cat |-> cat, listed |-> 0],
               request.dataSource, request, exec)
  ELSE IF ~IsSome(request.intent)
  THEN SearchUndefined(discoverDataSources(cat, NoFilter, listing, t))
  ELSE BuildSearched(searchDataSources(cat, Get(request.intent), listing, t), request, exec)

(***************************************************************************)
(* TemplateManager.  tm.templates maps a name to its template,             *)
(* tm.categories a category name to the category with its templates.       *)
(***************************************************************************)
EmptyTemplates == [templates |-> <<>>, categories |-> <<>>]

\* error.message of the error thrown by fs.ensureDir or fs.writeFile
SaveErrorMessage == "EACCES: permission denied"

\* getCategoryDescription(categoryName)
getCategoryDescription(categoryName) ==
  CASE categoryName = "compliance" -> "Compliance monitoring and benchmark evaluations"
    [] categoryName = "threats"    -> "Threat detection and security incident monitoring"
    [] categoryName = "inventory"  -> "Asset inventory and resource management queries"
    [] categoryName = "custom"     -> "User-generated and custom LQL templates"
    [] categoryName = "aws"        -> "Amazon Web Services security and monitoring templates"
    [] categoryName = "containers" -> "Container and Kubernetes security monitoring"
    [] categoryName = "network"    -> "Network activity and communication monitoring"
    [] categoryName = "users"      -> "User activity and authentication monitoring"
    [] OTHER                       -> "Lacework monitoring templates"

\* the template handleNaturalLanguageQuery saves, with the metadata
\* saveTemplate adds at instant t
Template(lqlQuery, description, t) ==
  [name |-> lqlQuery.suggestedName, description |-> description,
   query |-> lqlQuery.query, category |-> lqlQuery.category,
   parameters |-> lqlQuery.parameters,
   created |-> toISOString(t), updated |-> toISOString(t), version |-> "1.0.0"]

\* the templates of a category with the template updated or added
PutTemplate(list, template) ==
  IF \E i \in 1..Len(list) : list[i].name = template.name
  THEN [i \in 1..Len(list) |-> IF list[i].name = template.name THEN template ELSE list[i]]
  ELSE Append(list, template)

\* the category of saveTemplate: the existing one, or a new one
CategoryOf(categories, name) ==
  IF MapHas(categories, name) THEN MapGet(categories, name)
  ELSE [name |-> name, description |-> getCategoryDescription(name), templates |-> <<>>]

\* saveTemplate(template) when saveTemplateFile ends as `save`: memory is
\* updated first, then the error of the file system escapes
saveTemplate(tm, template, save) ==
  [threw |-> save = "throw",
   tm |-> [templates |-> MapSet(tm.templates, template.name, template),
           categories |->
             MapSet(tm.categories, template.category,
                    [CategoryOf(tm.categories, template.category) EXCEPT
                       !.templates = PutTemplate(@, template)])]]

\* getTemplates(categoryFilter); "" stands for no filter
getTemplates(tm, categoryFilter) ==
  SelectSeq([i \in 1..Len(tm.categories) |-> tm.categories[i][2]],
            LAMBDA c : categoryFilter = "" \/ c.name = categoryFilter)

(***************************************************************************)
(* The server: the handlers of the tool calls.  A handler works on the     *)
(* catalog, the registry and the templates, with collaborators that answer *)
(* as env says: the listing of the data sources, the sample queries of the *)
(* catalog, the handler's own query, the file system.                      *)
(***************************************************************************)
Env(listing, sample, exec, save) ==
  [listing |-> listing, sample |-> sample, exec |-> exec, save |-> save]

\* what a handler leaves: the value returned (None for null), the three
\* components, whether it called the execution collaborator for its own
\* query and whether it called saveTemplate
Handled(ret, c, r, tm, executed, saved) ==
  [ret |-> ret, threw |-> FALSE, message |-> "", cat |-> c, reg |-> r, tm |-> tm,
   executed |-> executed, saved |-> saved]

\* what a handler leaves when it throws an Error with the message
Thrown(message, c, r, tm) ==
  [ret |-> None, threw |-> TRUE, message |-> message, cat |-> c, reg |-> r, tm |-> tm,
   executed |-> 0, saved |-> 0]

\* checkLaceworkStatus(): getStatus() returns the status kept since
\* initialize()
checkLaceworkStatus(c, r, tm) ==
  Handled(Some(TextResult("Lacework Status", <<>>)), c, r, tm, 0, 0)

\* a variant of step 4 that registers whatever the number of rows
NaturalRegisteredAlways(r, tm, query, env, g, saved, t) ==
  Handled(Some(TextResult("Natural Language Query: " \o query, env.exec.rows)),
          g.cat, registerToolFromQuery(r, g.ret, query, t), tm, 1, saved)

\* step 4 of handleNaturalLanguageQuery and its return
NaturalRegistered(r, tm, query, env, g, saved, t) ==
  Handled(Some(TextResult("Natural Language Query: " \o query, env.exec.rows)),
          g.cat,
          IF Len(env.exec.rows) > 0 THEN registerToolFromQuery(r, g.ret, query, t) ELSE r,
          tm, 1, saved)

\* handleNaturalLanguageQuery, once saveTemplate returned s
NaturalSaved(r, query, env, g, s, t) ==
  IF s.threw
  THEN Handled(Some(ErrorResult("Natural Language Query Error: " \o SaveErrorMessage)),
               g.cat, r, s.tm, 1, 1)
  ELSE NaturalRegistered(r, s.tm, query, env, g, 1, t)

\* handleNaturalLanguageQuery, once generateFromNaturalLanguage returned g
NaturalTranslated(r, tm, args, env, g, t) ==
  IF g.threw
  THEN Handled(Some(ErrorResult("Natural Language Query Error: translation")),
               g.cat, r, tm, 0, 0)
  ELSE IF env.exec.kind = "throw"
  THEN Handled(Some(ErrorResult("Natural Language Query Error: " \o ExecErrorMessage)),
               g.cat, r, tm, 1, 0)
  ELSE IF args.saveAsTemplate /\ Len(env.exec.rows) > 0
  THEN NaturalSaved(r, Get(args.query), env, g,
                    saveTemplate(tm, Template(g.ret, Get(args.query), t), env.save), t)
  ELSE NaturalRegistered(r, tm, Get(args.query), env, g, 0, t)

\* handleNaturalLanguageQuery(args) at instant t
handleNaturalLanguageQuery(c, r, tm, args, env, t) ==
  IF ~args.defined \/ ~IsSome(args.query)
  THEN \* args.query of undefined, or undefined.toLowerCase(): a TypeError
       Handled(Some(ErrorResult("Natural Language Query Error: " \o TypeErrorMessage)),
               c, r, tm, 0, 0)
  ELSE NaturalTranslated(r, tm, args, env,
                         generateFromNaturalLanguage(c, Get(args.query), env.listing,
                                                     env.sample, t),
                         t)

\* executeLQL(args)
executeLQL(c, r, tm, args, env) ==
  IF ~args.defined
  THEN Handled(Some(ErrorResult("LQL Execution Error: " \o TypeErrorMessage)), c, r, tm, 0, 0)
  ELSE IF env.exec.kind = "throw"
  THEN Handled(Some(ErrorResult("LQL Execution Error: " \o ExecErrorMessage)), c, r, tm, 1, 0)
  ELSE Handled(Some(TextResult("LQL Query: " \o (IF IsSome(args.query) THEN Get(args.query)
                                                 ELSE "undefined"),
                               env.exec.rows)),
               c, r, tm, 1, 0)

\* listTemplates(): the handler passes no arguments
listTemplates(c, r, tm) ==
  Handled(Some(TextResult("Available LQL Templates", getTemplates(tm, ""))), c, r, tm, 0, 0)

\* exploreDataSources, once discoverDataSources returned d
Explored(r, tm, d) ==
  IF d.threw
  THEN Handled(Some(ErrorResult("Data Source Exploration Error: discovery")),
               d.cat, r, tm, 0, 0)
  ELSE Handled(Some(TextResult("Discovered data sources", d.ret)), d.cat, r, tm, 0, 0)

\* exploreDataSources(args) at instant t
exploreDataSources(c, r, tm, args, env, t) ==
  IF ~args.defined
  THEN Handled(Some(ErrorResult("Data Source Exploration Error: " \o TypeErrorMessage)),
               c, r, tm, 0, 0)
  ELSE Explored(r, tm, discoverDataSources(c, Request(args.pattern, "", "", 0),
                                           env.listing, t))

\* describeDataSource, once exploreDataSource returned e
Described(r, tm, dataSource, e) ==
  IF ~IsSome(e.ret)
  THEN Handled(Some(ErrorResult("Data source '" \o dataSource
                                \o "' not found or not accessible.")),
               e.cat, r, tm, 0, 0)
  ELSE Handled(Some(TextResult("Data Source: " \o Get(e.ret).name, <<Get(e.ret)>>)),
               e.cat, r, tm, 0, 0)

\* describeDataSource(args)
describeDataSource(c, r, tm, args, env) ==
  IF ~args.defined
  THEN Handled(Some(ErrorResult("Data Source Description Error: " \o TypeErrorMessage)),
               c, r, tm, 0, 0)
  ELSE IF args.dataSource = ""
  THEN \* exploreDataSource(undefined) fails in categorizeDataSource and
       \* returns null
       Described(r, tm, "undefined",
                 [ret |-> None, threw |-> FALSE, cat |-> c, executed |-> 0])
  ELSE Described(r, tm, args.dataSource, exploreDataSource(c, args.dataSource, env.sample))

\* the body of the loop of findFieldsContaining for a source that passes
\* the data source pattern, once exploreDataSource returned e; an absent
\* fieldPattern is a TypeError at the first source that has fields
FieldsStep(acc, sourceName, fieldPattern, e) ==
  IF ~IsSome(e.ret) \/ ~IsSome(Get(e.ret).fields)
  THEN [acc EXCEPT !.cat = e.cat]
  ELSE IF ~IsSome(fieldPattern)
  THEN [acc EXCEPT !.cat = e.cat, !.threw = TRUE]
  ELSE IF \E i \in 1..Len(Get(Get(e.ret).fields)) :
            \/ Includes(ToLowerCase(Get(Get(e.ret).fields)[i].name),
                        ToLowerCase(Get(fieldPattern)))
            \/ Includes(ToLowerCase(Get(Get(e.ret).fields)[i].description),
                        ToLowerCase(Get(fieldPattern)))
  THEN [acc EXCEPT
          !.cat = e.cat,
          !.ret = Append(@, [source |-> sourceName,
                             fields |-> SelectSeq(Get(Get(e.ret).fields), LAMBDA f :
                                          \/ Includes(ToLowerCase(f.name),
                                                      ToLowerCase(Get(fieldPattern)))
                                          \/ Includes(ToLowerCase(f.description),
                                                      ToLowerCase(Get(fieldPattern))))])]
  ELSE [acc EXCEPT !.cat = e.cat]

\* the loop of findFieldsContaining over the sources
RECURSIVE FindFields(_, _, _, _, _)
FindFields(acc, sources, fieldPattern, dataSourcePattern, sample) ==
  IF sources = <<>> \/ acc.threw THEN acc
  ELSE IF dataSourcePattern # ""
          /\ ~Includes(ToLowerCase(Head(sources).name), ToLowerCase(dataSourcePattern))
  THEN FindFields(acc, Tail(sources), fieldPattern, dataSourcePattern, sample)
  ELSE FindFields(FieldsStep(acc, Head(sources).name, fieldPattern,
                             exploreDataSource(acc.cat, Head(sources).name, sample)),
                  Tail(sources), fieldPattern, dataSourcePattern, sample)

\* findFieldsContaining, once discoverDataSources returned d
FindIn(d, fieldPattern, dataSourcePattern, sample) ==
  FindFields([ret |-> <<>>, threw |-> d.threw, cat |-> d.cat], d.ret,
             fieldPattern, dataSourcePattern, sample)

\* findFieldsContaining(fieldPattern, dataSourcePattern) at instant t
findFieldsContaining(c, fieldPattern, dataSourcePattern, listing, sample, t) ==
  FindIn(discoverDataSources(c, NoFilter, listing, t), fieldPattern, dataSourcePattern,
         sample)

\* the discoverFields handler, once findFieldsContaining returned f
FieldsFound(r, tm, f) ==
  IF f.threw
  THEN Handled(Some(ErrorResult("Field Discovery Error: " \o TypeErrorMessage)),
               f.cat, r, tm, 0, 0)
  ELSE IF Len(f.ret) = 0
  THEN Handled(Some(TextResult("No fields found matching pattern", <<>>)),
               f.cat, r, tm, 0, 0)
  ELSE Handled(Some(TextResult("Found fields matching", f.ret)), f.cat, r, tm, 0, 0)

\* the discoverFields(args) handler of the server at instant t
discoverFieldsTool(c, r, tm, args, env, t) ==
  IF ~args.defined
  THEN Handled(Some(ErrorResult("Field Discovery Error: " \o TypeErrorMessage)),
               c, r, tm, 0, 0)
  ELSE FieldsFound(r, tm, findFieldsContaining(c, args.fieldPattern, args.dataSourcePattern,
                                               env.listing, env.sample, t))

\* the buildTargetedQuery handler, once the query builder returned q: the
\* query is executed, and an error of the execution is logged only
TargetedBuilt(r, tm, env, q) ==
  IF q.threw
  THEN Handled(Some(ErrorResult("Targeted Query Building Error: " \o q.message)),
               q.cat, r, tm, 0, 0)
  ELSE IF env.exec.kind = "throw"
  THEN Handled(Some(TextResult("Targeted Query Built", <<Get(q.ret)>>)), q.cat, r, tm, 1, 0)
  ELSE Handled(Some(TextResult("Targeted Query Built", <<Get(q.ret), env.exec.rows>>)),
               q.cat, r, tm, 1, 0)

\* the buildTargetedQuery(args) handler of the server at instant t
buildTargetedQueryTool(c, r, tm, args, env, t) ==
  IF ~args.defined
  THEN Handled(Some(ErrorResult("Targeted Query Building Error: " \o TypeErrorMessage)),
               c, r, tm, 0, 0)
  ELSE TargetedBuilt(r, tm, env,
                     buildTargetedQuery(c, BuildRequest(args.intent, args.dataSource,
                                                        args.filters, args.fields),
                                        env.listing, env.sample, t))

\* what the handler returns when executeTool returned x for the tool just
\* generated
GeneratedReturn(c, tm, x) == Handled(x.ret, c, x.reg, tm, x.executed, 0)

\* the dynamic branch, once generateToolFromQuery returned gen
DynamicGenerated(tm, name, args, env, gen, t) ==
  IF gen.ret
  THEN GeneratedReturn(gen.cat, tm, executeTool(gen.reg, name, args, env.exec, t))
  ELSE Thrown("Unknown tool: " \o name \o ". Try using 'natural-query' with your request.",
              gen.cat, gen.reg, tm)

\* the dynamic branch, once the first executeTool returned x
DynamicExecuted(c, tm, name, args, env, x, t) ==
  IF IsSome(x.ret)
  THEN Handled(x.ret, c, x.reg, tm, x.executed, 0)
  ELSE DynamicGenerated(tm, name, args, env,
                        generateToolFromQuery(x.reg, c, name, args, env.listing,
                                              env.sample, t),
                        t)

\* the names of the static tools
StaticTools ==
  {"lacework-status", "natural-query", "list-templates", "execute-lql",
   "explore-data-sources", "describe-data-source", "discover-fields",
   "build-targeted-query"}

\* the try block of the handler of the tool calls
Dispatch(c, r, tm, name, args, env, t) ==
  CASE name = "lacework-status"      -> checkLaceworkStatus(c, r, tm)
    [] name = "natural-query"        -> handleNaturalLanguageQuery(c, r, tm, args, env, t)
    [] name = "list-templates"       -> listTemplates(c, r, tm)
    [] name = "execute-lql"          -> executeLQL(c, r, tm, args, env)
    [] name = "explore-data-sources" -> exploreDataSources(c, r, tm, args, env, t)
    [] name = "describe-data-source" -> describeDataSource(c, r, tm, args, env)
    [] name = "discover-fields"      -> discoverFieldsTool(c, r, tm, args, env, t)
    [] name = "build-targeted-query" -> buildTargetedQueryTool(c, r, tm, args, env, t)
    [] OTHER -> DynamicExecuted(c, tm, name, args, env,
                                executeTool(r, name, args, env.exec, t), t)

\* a handler without the catch block
Uncaught(h) == h

\* the catch block of the handler of the tool calls, h being what the try
\* block left
Caught(h) ==
  IF h.threw
  THEN [h EXCEPT !.ret = Some(ErrorResult("Error: " \o h.message)), !.threw = FALSE]
  ELSE h

\* the handler of the tool calls, for the request (name, args) at instant t
CallTool(c, r, tm, name, args, env, t) == Caught(Dispatch(c, r, tm, name, args, env, t))

(***************************************************************************)
(* The state.                                                              *)
(***************************************************************************)
VARIABLES
  now,         \* Date.now(), in seconds
  cat,         \* DataSourceExplorer: dataSourceCache, fieldCache, lastDiscovery
  heap,        \* the DynamicTool objects created so far
  tools,       \* DynamicToolRegistry.tools
  templates,   \* TemplateManager.templates
  categories,  \* TemplateManager.categories
  res,         \* the last call: the operation, its inputs, what it returned
  hist,        \* history: the run of equal registerToolFromQuery calls in progress,
               \* the list the listing collaborator returned to the last fetch,
               \* the discover calls begun and what each wrote
  inflight,    \* the discover calls suspended at `await getDataSources()`
  handler      \* LaceworkHandler: the files of os.tmpdir(), the executeQuery calls

vars == <<now, cat, heap, tools, templates, categories, res, hist, inflight, handler>>

reg == [heap |-> heap, tools |-> tools]

\* `temp_query_${Date.now()}` at instant t
queryId(t) == <<"temp_query_", t>>

\* path.join(os.tmpdir(), `${queryId}.yaml`)
tempFile(t) == <<queryId(t), ".yaml">>

\* yamlContent: the query id and the block scalar of queryText, every line of
\* the query indented by two blanks
yamlContent(id, query) ==
  [queryId |-> id, queryText |-> "  " \o Join(SplitOn(query, "\n"), "\n  ")]

\* the query text the CLI reads from a file: the lines of the block scalar
\* without their indentation
QueryTextIn(content) ==
  LET lines == SplitOn(content.queryText, "\n")
  IN  Join([i \in 1..Len(lines) |-> From(lines[i], 3)], "\n")

\* an executeQuery call: the query, where it stands, its temporary file, the
\* text the CLI ran (none when the file was missing), whether the file was
\* there when the CLI ended, whether another call ran during it
NoQuery ==
  [query |-> "", pc |-> "import", file |-> None, ran |-> None, read |-> FALSE,
   kept |-> FALSE, overlapped |-> FALSE]

\* a handler with an empty temporary directory and no call
NoQueries == [files |-> <<>>, calls |-> <<>>]

\* the record of a call; every action fills the members it has
NoCall ==
  [op |-> "", name |-> "", text |-> "", category |-> "", args |-> Undefined,
   maxAge |-> 0, ret |-> None, flag |-> FALSE, count |-> 0, threw |-> FALSE,
   executed |-> 0, execErr |-> FALSE, rows |-> 0, saveErr |-> FALSE,
   query |-> None, request |-> NoFilter]

\* the history of the discover calls: how many began, which call wrote each
\* cache entry last, the descriptors each returned fetch wrote, the calls in
\* flight at some instant of each call, and for the call that returned last
\* the calls that ran during it and its descriptors with their writers
NoCalls ==
  [started |-> 0, writer |-> {}, wrote |-> <<>>, during |-> <<>>,
   overlap |-> {}, returned |-> {}]

NoHist == [category |-> "", text |-> "", n |-> 0, listing |-> None, calls |-> NoCalls]

(***************************************************************************)
(* Bounds and inputs.                                                      *)
(***************************************************************************)
\* the clock advances at most MaxTicks times, by CacheTimeout each time
MaxTicks == 1
\* at most MaxTools tool objects are created
MaxTools == 2
\* a tool is used at most MaxUsage times
MaxUsage == 2

Usable(h) == Len(h) <= MaxTools /\ \A i \in 1..Len(h) : h[i].usageCount <= MaxUsage

\* how a query of the execution collaborator ends
ExecOutcomes == {ExecThrow, ExecRows(<<<<"RESOURCE_ID">>>>)}

\* the texts translated and registered
Texts == {"show me aws ec2 instances", "list compliance violations"}

MaxAges == {0, CacheTimeout}

\* the LQLQueryResult registered for a text: its translation by a fresh
\* generator whose collaborators fail
LqlOf ==
  [text \in Texts |->
     generateFromNaturalLanguage(EmptyCatalog, text, <<>>, ExecThrow, 0).ret]

\* the name registerToolFromQuery gives the capability of a text
RegisteredName(text) ==
  generateToolName(text, generateFromNaturalLanguage(EmptyCatalog, text, <<>>, ExecThrow,
                                                     0).ret.category)

\* the calls of registerToolFromQuery: the original text, the text whose
\* translation is registered
RegisterCalls ==
  {<<"show me aws ec2 instances", "show me aws ec2 instances">>,
   <<"list compliance violations", "list compliance violations">>}

\* the requests that reach generateToolFromQuery
ToolCalls ==
  {<<"list-aws-s3-buckets", NoArgs>>, <<"-", NoArgs>>,
   <<"-", ArgsOf(Some("list compliance violations"), "high", "")>>}

\* the requests that reach executeTool: each registered name, a name that
\* may be unknown, a request without arguments
ExecuteCalls ==
  {<<tools[i][1], NoArgs>> : i \in 1..Len(tools)}
  \cup {<<"list-aws-s3-buckets", Undefined>>}

\* how the collaborators answer during one call: the listing, the sample
\* queries of the catalog
Environments ==
  {<<<<>>, ExecThrow>>, <<<<"LW_HE_FILES">>, ExecRows(<<<<"SEVERITY", "RESOURCE_ID">>>>)>>}

Init ==
  /\ now = 0
  /\ cat = EmptyCatalog
  /\ heap = <<>>
  /\ tools = <<>>
  /\ templates = <<>>
  /\ categories = <<>>
  /\ res = NoCall
  /\ hist = NoHist
  /\ inflight = <<>>
  /\ handler = NoQueries

\* time passes
Tick ==
  /\ now < MaxTicks * CacheTimeout
  /\ now' = now + CacheTimeout
  /\ res' = [NoCall EXCEPT !.op = "tick"]
  /\ UNCHANGED <<cat, heap, tools, templates, categories, hist, inflight, handler>>

(***************************************************************************)
(* The operations of the registry, called by its owner.                    *)
(***************************************************************************)
\* the state after registerToolFromQuery left the registry r
Registered(text, lqlQuery, toolName, r) ==
  /\ Usable(r.heap)
  /\ heap' = r.heap
  /\ tools' = r.tools
  /\ res' = [NoCall EXCEPT !.op = "registerToolFromQuery", !.name = toolName,
                           !.text = text, !.category = lqlQuery.category]
  /\ UNCHANGED <<inflight, handler>>
  /\ hist' = IF hist.n > 0 /\ hist.category = lqlQuery.category /\ hist.text = text
             THEN [hist EXCEPT !.n = @ + 1]
             ELSE IF ~MapHas(tools, toolName)
             THEN [NoHist EXCEPT !.category = lqlQuery.category, !.text = text, !.n = 1]
             ELSE NoHist
  /\ UNCHANGED <<now, cat, templates, categories>>

RegisterToolFromQuery(text, lqlText) ==
  Registered(text, LqlOf[lqlText], generateToolName(text, LqlOf[lqlText].category),
             registerToolFromQuery(reg, LqlOf[lqlText], text, now))

\* the state after generateToolFromQuery returned r
GeneratedTool(toolName, args, r) ==
  /\ Usable(r.reg.heap)
  /\ heap' = r.reg.heap
  /\ tools' = r.reg.tools
  /\ cat' = r.cat
  /\ res' = [NoCall EXCEPT !.op = "generateToolFromQuery", !.name = toolName,
                           !.args = args, !.flag = r.ret, !.threw = r.threw]
  /\ UNCHANGED <<inflight, handler>>
  /\ hist' = NoHist
  /\ UNCHANGED <<now, templates, categories>>

GenerateToolFromQuery(toolName, args, listing, sample) ==
  GeneratedTool(toolName, args,
                generateToolFromQuery(reg, cat, toolName, args, listing, sample, now))

\* the state after executeTool returned r
ExecutedTool(name, args, exec, r) ==
  /\ Usable(r.reg.heap)
  /\ heap' = r.reg.heap
  /\ tools' = r.reg.tools
  /\ res' = [NoCall EXCEPT !.op = "executeTool", !.name = name, !.args = args,
                           !.ret = r.ret, !.threw = r.threw,
                           !.executed = r.executed,
                           !.execErr = (r.executed > 0 /\ exec.kind = "throw"),
                           !.query = r.query]
  /\ UNCHANGED <<inflight, handler>>
  /\ hist' = NoHist
  /\ UNCHANGED <<now, cat, templates, categories>>

ExecuteTool(name, args, exec) ==
  ExecutedTool(name, args, exec, executeTool(reg, name, args, exec, now))

\* the state after pruneUnusedTools returned r
Pruned(maxAge, r) ==
  /\ heap' = r.reg.heap
  /\ tools' = r.reg.tools
  /\ res' = [NoCall EXCEPT !.op = "pruneUnusedTools", !.maxAge = maxAge,
                           !.count = r.ret]
  /\ UNCHANGED <<inflight, handler>>
  /\ hist' = NoHist
  /\ UNCHANGED <<now, cat, templates, categories>>

PruneUnusedTools(maxAge) == Pruned(maxAge, pruneUnusedTools(reg, maxAge, now))

\* exportTools(): the array is handed to the caller
ExportTools ==
  /\ res' = [NoCall EXCEPT !.op = "exportTools", !.ret = Some(exportTools(reg))]
  /\ UNCHANGED <<now, cat, heap, tools, templates, categories, hist, inflight, handler>>

\* the arrays the caller may hand to importTools: the array exportTools
\* returns now, and each object created so far (an array exported earlier may
\* hold an object that was pruned since)
ImportArrays == {exportTools(reg)} \cup {<<i>> : i \in 1..Len(heap)}

\* the state after importTools left the registry r
Imported(array, r) ==
  /\ heap' = r.heap
  /\ tools' = r.tools
  /\ res' = [NoCall EXCEPT !.op = "importTools", !.ret = Some(array)]
  /\ UNCHANGED <<inflight, handler>>
  /\ hist' = NoHist
  /\ UNCHANGED <<now, cat, templates, categories>>

ImportTools(array) == Imported(array, importTools(reg, array))

(***************************************************************************)
(* The tool calls a client of the server makes.                            *)
(***************************************************************************)
tm == [templates |-> templates, categories |-> categories]

\* the state after the handler returned h for the request (name, args)
Called(name, args, env, h) ==
  /\ Usable(h.reg.heap)
  /\ cat' = h.cat
  /\ heap' = h.reg.heap
  /\ tools' = h.reg.tools
  /\ templates' = h.tm.templates
  /\ categories' = h.tm.categories
  /\ res' = [NoCall EXCEPT
               !.op = "callTool", !.name = name, !.ret = h.ret, !.threw = h.threw,
               !.executed = h.executed,
               !.execErr = (h.executed > 0 /\ env.exec.kind = "throw"),
               !.rows = IF h.executed > 0 /\ env.exec.kind = "ok"
                        THEN Len(env.exec.rows) ELSE 0,
               !.saveErr = (h.saved > 0 /\ env.save = "throw")]
  /\ UNCHANGED <<inflight, handler>>
  /\ hist' = NoHist
  /\ UNCHANGED now

\* a request for the tool `name`
Call(name, args, env) == Called(name, args, env, CallTool(cat, reg, tm, name, args, env, now))

\* the collaborators during one request: all fail, or all answer
ServerEnvs ==
  {Env(<<>>, ExecThrow, ExecThrow, "throw"),
   Env(<<"LW_HE_FILES">>, ExecRows(<<<<"SEVERITY", "RESOURCE_ID">>>>),
       ExecRows(<<<<"RESOURCE_ID">>>>), "ok")}

\* the arguments of the requests: none at all, and a usable value
QueryArgs == {Undefined, [NoArgs EXCEPT !.query = Some("list aws s3 buckets")]}

LqlArgs == {Undefined, [NoArgs EXCEPT !.query = Some("{ source { LW_HE_FILES } }")]}

ExploreArgs == {Undefined, [NoArgs EXCEPT !.pattern = "aws"]}

DescribeArgs == {Undefined, NoArgs, [NoArgs EXCEPT !.dataSource = "LW_CFG_AWS_S3"]}

FieldsArgs ==
  {Undefined, [NoArgs EXCEPT !.fieldPattern = Some("region"), !.dataSourcePattern = "s3"]}

BuildArgs ==
  {Undefined,
   [NoArgs EXCEPT !.intent = Some("find public buckets"), !.dataSource = "LW_CFG_AWS_S3",
                  !.filters = <<<<"region", "us-east-1">>>>]}

\* the requests for names that are no static tools: the name natural-query
\* registers its capability under, a name a tool can be generated for, a name
\* none can be generated for
DynamicCalls ==
  {<<RegisteredName("list aws s3 buckets"), NoArgs>>,
   <<"list-aws-s3-buckets", NoArgs>>, <<"list-aws-s3-buckets", Undefined>>,
   <<"-", NoArgs>>}

\* the requests of a client
Requests ==
  {<<"lacework-status", NoArgs>>, <<"list-templates", NoArgs>>}
  \cup {<<"natural-query", args>> : args \in QueryArgs}
  \cup {<<"execute-lql", args>> : args \in LqlArgs}
  \cup {<<"explore-data-sources", args>> : args \in ExploreArgs}
  \cup {<<"describe-data-source", args>> : args \in DescribeArgs}
  \cup {<<"discover-fields", args>> : args \in FieldsArgs}
  \cup {<<"build-targeted-query", args>> : args \in BuildArgs}
  \cup DynamicCalls

\* a client calls the tools of the server
ServerNext == \E request \in Requests, env \in ServerEnvs : Call(request[1], request[2], env)

SpecServer == Init /\ [][ServerNext]_vars

\* the collaborators during a natural-query request: all fail; the query
\* returns no row; it returns a row; it returns a row and the file system fails
NaturalEnvs ==
  {Env(<<>>, ExecThrow, ExecThrow, "ok"),
   Env(<<"LW_HE_FILES">>, ExecRows(<<<<"SEVERITY", "RESOURCE_ID">>>>), ExecRows(<<>>), "ok"),
   Env(<<"LW_HE_FILES">>, ExecRows(<<<<"SEVERITY", "RESOURCE_ID">>>>),
       ExecRows(<<<<"RESOURCE_ID">>>>), "ok"),
   Env(<<"LW_HE_FILES">>, ExecRows(<<<<"SEVERITY", "RESOURCE_ID">>>>),
       ExecRows(<<<<"RESOURCE_ID">>>>), "throw")}

NaturalArgs ==
  {[NoArgs EXCEPT !.query = Some("list compliance violations")],
   [NoArgs EXCEPT !.query = Some("list compliance violations"), !.saveAsTemplate = TRUE]}

\* a client asks in natural language and lists the templates
NaturalNext ==
  \/ Tick
  \/ \E request \in {<<"natural-query", args>> : args \in NaturalArgs}
                     \cup {<<"list-templates", NoArgs>>},
        env \in NaturalEnvs : Call(request[1], request[2], env)

SpecNatural == Init /\ [][NaturalNext]_vars

\* the state after generateFromNaturalLanguage returned g
Translation(naturalQuery, listing, g) ==
  /\ cat' = g.cat
  /\ res' = [NoCall EXCEPT !.op = "generateFromNaturalLanguage", !.text = naturalQuery,
                           !.ret = Some(g.ret), !.threw = g.threw,
                           !.executed = g.executed, !.count = g.listed]
  /\ UNCHANGED <<inflight, handler>>
  /\ hist' = IF g.listed > 0 THEN [NoHist EXCEPT !.listing = Some(listing)] ELSE hist
  /\ UNCHANGED <<now, heap, tools, templates, categories>>

Translate(naturalQuery, listing, sample) ==
  Translation(naturalQuery, listing,
              generateFromNaturalLanguage(cat, naturalQuery, listing, sample, now))

\* the texts translated: the empty text, texts with and without a pattern, a
\* filter, a time range, a text that no keyword and no source matches
TranslateTexts ==
  {"", "list compliance violations", "high severity ec2 instances last 7 days", "zzz"}

\* the listing and the sample queries of the catalog: failure, an empty
\* result, success
CatalogEnvs ==
  {<<<<>>, ExecThrow>>, <<<<>>, ExecRows(<<>>)>>,
   <<<<"LW_HE_FILES">>, ExecRows(<<<<"SEVERITY", "RESOURCE_ID">>>>)>>}

\* the owner of a translator translates texts
TranslateNext ==
  \/ Tick
  \/ \E naturalQuery \in TranslateTexts, env \in CatalogEnvs :
       Translate(naturalQuery, env[1], env[2])

SpecTranslate == Init /\ [][TranslateNext]_vars

\* the state after mapFieldName returned m
Resolved(filterKey, dataSource, m) ==
  /\ cat' = m.cat
  /\ res' = [NoCall EXCEPT !.op = "mapFieldName", !.text = filterKey, !.name = dataSource,
                           !.ret = Some(m.ret), !.threw = m.threw,
                           !.executed = m.executed]
  /\ UNCHANGED <<now, heap, tools, templates, categories, hist, inflight, handler>>

MapFieldName(filterKey, dataSource, exec) ==
  Resolved(filterKey, dataSource, mapFieldName(cat, filterKey, dataSource, exec))

\* the query builder resolves a key against a source info of the catalog
MapFilterToField(filterKey, dataSource) ==
  /\ CacheHas(cat.dsc, dataSource)
  /\ res' = [NoCall EXCEPT
               !.op = "mapFilterToField", !.text = filterKey, !.name = dataSource,
               !.ret = Some(mapFilterToField(filterKey, Get(CacheGet(cat.dsc, dataSource))))]
  /\ UNCHANGED <<now, cat, heap, tools, templates, categories, hist, inflight, handler>>

\* the filter keys resolved: the empty key, keys of the static tables, a key
\* of no table, a key that every object inherits
FilterKeys == {"", "region", "severity", "owner", "constructor"}

\* known sources with and without known fields
ResolveSources == {"LW_CFG_AWS_EC2_INSTANCES", "LW_CFG_AWS_S3", "CloudTrailRawEvents"}

\* the sample query of the field discovery: failure, no row, a row
SampleOutcomes == {ExecThrow, ExecRows(<<>>), ExecRows(<<<<"SEVERITY", "RESOURCE_ID">>>>)}

\* the translator and the query builder resolve filter keys
ResolveNext ==
  \/ \E filterKey \in FilterKeys, dataSource \in ResolveSources, exec \in SampleOutcomes :
       MapFieldName(filterKey, dataSource, exec)
  \/ \E filterKey \in FilterKeys, dataSource \in ResolveSources :
       MapFilterToField(filterKey, dataSource)

SpecResolve == Init /\ [][ResolveNext]_vars

\* the state after discoverDataSources returned d
DiscoveredSources(request, listing, d) ==
  /\ cat' = d.cat
  /\ res' = [NoCall EXCEPT !.op = "discoverDataSources", !.request = request,
                           !.ret = Some(d.ret), !.threw = d.threw,
                           !.flag = (d.listed = 0)]
  /\ UNCHANGED <<inflight, handler>>
  /\ hist' = IF d.listed > 0 THEN [NoHist EXCEPT !.listing = Some(listing)] ELSE hist
  /\ UNCHANGED <<now, heap, tools, templates, categories>>

DiscoverDataSources(request, listing) ==
  DiscoveredSources(request, listing, discoverDataSources(cat, request, listing, now))

\* the state after exploreDataSource returned e
ExploredSource(sourceName, e) ==
  /\ cat' = e.cat
  /\ res' = [NoCall EXCEPT !.op = "exploreDataSource", !.name = sourceName,
                           !.ret = e.ret, !.threw = e.threw, !.executed = e.executed]
  /\ UNCHANGED <<now, heap, tools, templates, categories, hist, inflight, handler>>

ExploreDataSource(sourceName, exec) ==
  ExploredSource(sourceName, exploreDataSource(cat, sourceName, exec))

\* the filters of discoverDataSources: none, a pattern, a limit
DiscoverRequests == {NoFilter, Request("aws", "", "", 0), Request("", "", "", 1)}

\* the lists the listing collaborator returns
Listings == {<<>>, <<"LW_HE_FILES">>}

\* the names explored: a seed name, a name neither listed nor in the seed
ExploredNames == {"LW_CFG_AWS_S3", "LW_NO_SUCH_SOURCE"}

\* the owner of a catalog discovers, explores and resolves fields as time passes
CatalogNext ==
  \/ Tick
  \/ \E request \in DiscoverRequests, listing \in Listings :
       DiscoverDataSources(request, listing)
  \/ \E sourceName \in ExploredNames, exec \in SampleOutcomes :
       ExploreDataSource(sourceName, exec)
  \/ \E exec \in SampleOutcomes : MapFieldName("region", "LW_CFG_AWS_S3", exec)

SpecCatalog == Init /\ [][CatalogNext]_vars

\* the registrations before an invocation with runtime arguments: a base
\* query without and one with a SEVERITY condition
InvokedTexts == {"show me aws ec2 instances", "high severity ec2 instances last 7 days"}

\* the translation of a text with no catalog behind it
TranslationOf ==
  [text \in InvokedTexts |->
     generateFromNaturalLanguage(EmptyCatalog, text, <<>>, ExecThrow, 0).ret]

\* registerToolFromQuery(translation of text, text)
RegisterTranslation(text) ==
  Registered(text, TranslationOf[text],
             generateToolName(text, TranslationOf[text].category),
             registerToolFromQuery(reg, TranslationOf[text], text, now))

\* the runtime arguments of an invocation
RuntimeArgs == {NoArgs, ArgsOf(None, "high", ""), ArgsOf(None, "", "us-east-1")}

\* the owner of a registry registers translations and invokes them with
\* runtime arguments
InvokeNext ==
  \/ \E text \in InvokedTexts : RegisterTranslation(text)
  \/ \E text \in InvokedTexts, args \in RuntimeArgs, exec \in ExecOutcomes :
       ExecuteTool(RegisteredName(text), args, exec)

SpecInvoke == Init /\ [][InvokeNext]_vars

\* the words the unregistered names are made of
NameWords == {"ec2", "tags", "without", "having", "withheld"}

MaxNameWords == 3

\* the names get-aws-<x>, x of one to MaxNameWords words
AwsNames ==
  {"get-aws-" \o Join(ws, "-") :
     ws \in UNION {[1..n -> NameWords] : n \in 1..MaxNameWords}}

\* the caller of inferNaturalLanguage reads the phrase inferred for a name
InferNaturalLanguage(toolName) ==
  /\ ~MapHas(tools, toolName)
  /\ res' = [NoCall EXCEPT !.op = "inferNaturalLanguage", !.name = toolName,
                           !.text = inferNaturalLanguage(toolName, NoArgs)]
  /\ UNCHANGED <<inflight, handler>>
  /\ hist' = NoHist
  /\ UNCHANGED <<heap, tools, templates, categories, cat, now>>

InferNext == \E toolName \in AwsNames : InferNaturalLanguage(toolName)

SpecInfer == Init /\ [][InferNext]_vars

(***************************************************************************)
(* config.ts.  process.env is a record of optional strings.  No module of  *)
(* the server imports config.ts: the constructor of the server and the     *)
(* handlers never call loadConfig, so the state after construction and     *)
(* every handler are the same under every environment.                     *)
(***************************************************************************)
defaultConfig ==
  [lacework |-> [cliPath |-> "lacework", apiUrl |-> None, apiToken |-> None,
                 defaultTimeRange |-> 24, maxQueryResults |-> 1000],
   dynamicTools |-> [enableAutoGeneration |-> TRUE, maxCachedTools |-> 50,
                     cacheTimeout |-> 30],
   monitoring |-> [enableDataSourceDiscovery |-> TRUE, discoveryInterval |-> 60,
                   enableQueryLogging |-> TRUE]]

\* a JavaScript truthy optional string
Truthy(o) == IsSome(o) /\ Get(o) # ""

NoEnv ==
  [LACEWORK_CLI_PATH |-> None, LACEWORK_API_URL |-> None, LACEWORK_API_TOKEN |-> None,
   MCP_DISABLE_AUTO_GENERATION |-> None]

\* loadConfig() under process.env = env
loadConfig(env) ==
  LET c1 == IF Truthy(env.LACEWORK_CLI_PATH)
            THEN [defaultConfig EXCEPT !.lacework.cliPath = Get(env.LACEWORK_CLI_PATH)]
            ELSE defaultConfig
      c2 == IF Truthy(env.LACEWORK_API_URL)
            THEN [c1 EXCEPT !.lacework.apiUrl = env.LACEWORK_API_URL]
            ELSE c1
      c3 == IF Truthy(env.LACEWORK_API_TOKEN)
            THEN [c2 EXCEPT !.lacework.apiToken = env.LACEWORK_API_TOKEN]
            ELSE c2
  IN  IF env.MCP_DISABLE_AUTO_GENERATION = Some("true")
      THEN [c3 EXCEPT !.dynamicTools.enableAutoGeneration = FALSE]
      ELSE c3

\* the environment the server is started in
ProcessEnv == [NoEnv EXCEPT !.MCP_DISABLE_AUTO_GENERATION = Some("true")]

(***************************************************************************)
(* Requests interleaving.  A handler runs to completion between two        *)
(* awaits, and discoverDataSources awaits once, for the listing            *)
(* collaborator: a discover call is two steps, from its begin to the       *)
(* return of the cached list or to the await, and from the answer of the   *)
(* collaborator to its return.  Other calls run between the two.           *)
(***************************************************************************)
\* at most MaxCalls discover calls begin
MaxCalls == 3

InFlightIds == {inflight[i].id : i \in 1..Len(inflight)}

\* the calls in flight meet the call that begins
Meet(during, id) ==
  [c \in 1..id |->
     IF c = id THEN InFlightIds
     ELSE IF c \in InFlightIds THEN during[c] \cup {id} ELSE during[c]]

\* the cache entries of the descriptors get the writer
WrittenBy(writer, infos, id) ==
  {p \in writer : \A i \in 1..Len(infos) : infos[i].name # p[1]}
    \cup {<<infos[i].name, id>> : i \in 1..Len(infos)}

\* the descriptors of a list read from the cache, each with the call that
\* wrote its cache entry
WithWriters(infos, writer) ==
  UNION {{<<infos[i], p[2]>> : p \in {q \in writer : q[1] = infos[i].name}} :
           i \in 1..Len(infos)}

\* the descriptors of a list a call built itself
OwnDescriptors(infos, id) == {<<infos[i], id>> : i \in 1..Len(infos)}

\* a discover call begins and finds the cache fresh: it returns the cached
\* list at once
DiscoverCached(request) ==
  /\ hist.calls.started < MaxCalls
  /\ shouldUseCache(cat, now)
  /\ res' = [NoCall EXCEPT !.op = "discoverDataSources", !.request = request,
                           !.ret = Some(getCachedDataSources(cat, request)),
                           !.flag = TRUE, !.count = hist.calls.started + 1]
  /\ hist' = [hist EXCEPT
                !.calls.started = @ + 1,
                !.calls.wrote = Append(@, {}),
                !.calls.during = Meet(@, hist.calls.started + 1),
                !.calls.overlap = InFlightIds,
                !.calls.returned =
                   WithWriters(getCachedDataSources(cat, request), hist.calls.writer)]
  /\ UNCHANGED <<now, cat, heap, tools, templates, categories, inflight, handler>>

\* a discover call begins and finds the cache stale: it is suspended at
\* `await this.laceworkHandler.getDataSources()`
DiscoverAwait(request) ==
  /\ hist.calls.started < MaxCalls
  /\ ~shouldUseCache(cat, now)
  /\ inflight' = Append(inflight, [id |-> hist.calls.started + 1, request |-> request])
  /\ UNCHANGED handler
  /\ hist' = [hist EXCEPT
                !.calls.started = @ + 1,
                !.calls.wrote = Append(@, {}),
                !.calls.during = Meet(@, hist.calls.started + 1)]
  /\ UNCHANGED <<now, cat, heap, tools, templates, categories, res>>

\* a variant of the resumption that yields once more after its writes, with
\* the call still in flight
DiscoverResumedYielding(i, f) ==
  /\ cat' = f.cat
  /\ hist' = [hist EXCEPT
                !.calls.writer = WrittenBy(@, f.ret, inflight[i].id)]
  /\ UNCHANGED <<now, heap, tools, templates, categories, res, inflight, handler>>

\* the state after the call suspended as inflight[i] ran from the answer of
\* the listing collaborator to its return, f being what it leaves
DiscoverResumed(i, f) ==
  /\ cat' = f.cat
  /\ inflight' = SubSeq(inflight, 1, i - 1) \o SubSeq(inflight, i + 1, Len(inflight))
  /\ UNCHANGED handler
  /\ res' = [NoCall EXCEPT !.op = "discoverDataSources",
                           !.request = inflight[i].request,
                           !.ret = Some(f.ret), !.flag = FALSE,
                           !.count = inflight[i].id]
  /\ hist' = [hist EXCEPT
                !.calls.writer = WrittenBy(@, f.ret, inflight[i].id),
                !.calls.wrote[inflight[i].id] = {f.ret[k] : k \in 1..Len(f.ret)},
                !.calls.overlap = hist.calls.during[inflight[i].id],
                !.calls.returned = OwnDescriptors(f.ret, inflight[i].id)]
  /\ UNCHANGED <<now, heap, tools, templates, categories>>

\* the listing collaborator answers the call suspended as inflight[i]
DiscoverResume(i, listing) ==
  DiscoverResumed(i, FetchDataSources(cat, inflight[i].request, listing, now))

\* the filters of the interleaved discover calls
InterleavedRequests == {NoFilter, Request("aws", "", "", 0)}

\* discover calls begin, are suspended and resumed in any order
InterleaveNext ==
  \/ Tick
  \/ \E request \in InterleavedRequests : DiscoverCached(request)
  \/ \E request \in InterleavedRequests : DiscoverAwait(request)
  \/ \E i \in 1..Len(inflight), listing \in Listings : DiscoverResume(i, listing)

SpecInterleave == Init /\ [][InterleaveNext]_vars

\* texts with a pattern of which a parameter is no extracted filter
ParameterTexts == {"show high risk", "aws ec2 public", "list compliance violations"}

\* the owner of a translator translates texts that match a pattern
ParameterNext ==
  \/ Tick
  \/ \E naturalQuery \in ParameterTexts, env \in CatalogEnvs :
       Translate(naturalQuery, env[1], env[2])

SpecParameters == Init /\ [][ParameterNext]_vars

\* texts with no phrase of a time range, with one and with two
WindowTexts ==
  {"ec2", "ec2 past hour", "today in the last hour", "s3 last 30 days or past week",
   "bucket past month"}

\* the owner of a translator translates texts that name a time range
WindowNext ==
  \/ Tick
  \/ \E naturalQuery \in WindowTexts, env \in CatalogEnvs :
       Translate(naturalQuery, env[1], env[2])

SpecWindows == Init /\ [][WindowNext]_vars

\* the calls of registerToolFromQuery that meet a registered name: the
\* original text, the text whose translation is handed over; the first two
\* give the same name
ReuseCalls ==
  {<<"show me aws ec2 instances", "show me aws ec2 instances">>,
   <<"list aws ec2 instances", "high severity ec2 instances last 7 days">>,
   <<"high severity ec2 instances last 7 days", "high severity ec2 instances last 7 days">>}

\* registerToolFromQuery(translation of lqlText, text)
RegisterAgain(text, lqlText) ==
  Registered(text, TranslationOf[lqlText],
             generateToolName(text, TranslationOf[lqlText].category),
             registerToolFromQuery(reg, TranslationOf[lqlText], text, now))

\* the owner of a registry registers translations again, invokes and prunes
ReuseNext ==
  \/ Tick
  \/ \E call \in ReuseCalls : RegisterAgain(call[1], call[2])
  \/ \E call \in ExecuteCalls, exec \in ExecOutcomes :
       ExecuteTool(call[1], call[2], exec)
  \/ \E maxAge \in MaxAges : PruneUnusedTools(maxAge)

SpecReuse == Init /\ [][ReuseNext]_vars

\* at most MaxQueries executeQuery calls are made
MaxQueries == 2

\* the queries handed to executeQuery
QueryTexts ==
  {"{\n  source {\n    LW_CFG_AWS_S3 r\n  }\n}", "{\n  source {\n    CloudTrailRawEvents r\n  }\n}"}

\* the state after a step of executeQuery left the handler h
QueryStep(h) ==
  /\ handler' = h
  /\ res' = [NoCall EXCEPT !.op = "executeQuery"]
  /\ UNCHANGED <<now, cat, heap, tools, templates, categories, hist, inflight>>

\* executeQuery(request) begins and waits for its imports
ExecuteQueryBegin(query) ==
  /\ Len(handler.calls) < MaxQueries
  /\ QueryStep([handler EXCEPT
       !.calls = Append([i \in 1..Len(@) |->
                           IF @[i].pc # "done" THEN [@[i] EXCEPT !.overlapped = TRUE]
                           ELSE @[i]],
                        [NoQuery EXCEPT
                           !.query = query,
                           !.overlapped = \E i \in 1..Len(handler.calls) :
                                             handler.calls[i].pc # "done"])])

\* the call names its file by the clock and calls fs.writeFile
ExecuteQueryName(i) ==
  /\ handler.calls[i].pc = "import"
  /\ QueryStep([handler EXCEPT !.calls[i].file = Some(tempFile(now)),
                               !.calls[i].pc = "write"])

\* fs.writeFile has written the file of the call
ExecuteQueryWritten(i) ==
  /\ handler.calls[i].pc = "write"
  /\ QueryStep([handler EXCEPT
       !.files = MapSet(@, Get(handler.calls[i].file),
                        yamlContent(Get(handler.calls[i].file)[1], handler.calls[i].query)),
       !.calls[i].pc = "exec"])

\* the CLI started by execAsync reads the file of the call
CliRead(i) ==
  /\ handler.calls[i].pc = "exec"
  /\ QueryStep([handler EXCEPT
       !.calls[i].ran = IF MapHas(handler.files, Get(handler.calls[i].file))
                        THEN Some(QueryTextIn(MapGet(handler.files,
                                                     Get(handler.calls[i].file))))
                        ELSE None,
       !.calls[i].read = TRUE,
       !.calls[i].pc = "cli"])

\* the CLI of the call ends and the finally block unlinks the file
ExecuteQueryFinish(i) ==
  /\ handler.calls[i].pc = "cli"
  /\ QueryStep([handler EXCEPT
       !.calls[i].kept = MapHas(handler.files, Get(handler.calls[i].file)),
       !.files = MapDelete(@, Get(handler.calls[i].file)),
       !.calls[i].pc = "done"])

\* the callers of a handler run queries side by side as time passes
QueryNext ==
  \/ Tick
  \/ \E query \in QueryTexts : ExecuteQueryBegin(query)
  \/ \E i \in 1..Len(handler.calls) :
       \/ ExecuteQueryName(i)
       \/ ExecuteQueryWritten(i)
       \/ CliRead(i)
       \/ ExecuteQueryFinish(i)

SpecQueries == Init /\ [][QueryNext]_vars

\* the owner of a registry registers, invokes, prunes, exports and imports
RegistryNext ==
  \/ Tick
  \/ \E call \in RegisterCalls : RegisterToolFromQuery(call[1], call[2])
  \/ \E call \in ExecuteCalls, exec \in ExecOutcomes :
       ExecuteTool(call[1], call[2], exec)
  \/ \E maxAge \in MaxAges : PruneUnusedTools(maxAge)
  \/ ExportTools
  \/ \E array \in ImportArrays : ImportTools(array)

SpecRegistry == Init /\ [][RegistryNext]_vars

\* the owner of a registry registers, generates on demand and invokes
GenerateNext ==
  \/ Tick
  \/ \E call \in RegisterCalls : RegisterToolFromQuery(call[1], call[2])
  \/ \E call \in ToolCalls, env \in Environments :
       GenerateToolFromQuery(call[1], call[2], env[1], env[2])
  \/ \E call \in ExecuteCalls, exec \in ExecOutcomes :
       ExecuteTool(call[1], call[2], exec)

SpecGenerate == Init /\ [][GenerateNext]_vars

(***************************************************************************)
(* Properties of the registry.                                             *)
(***************************************************************************)
\* the capabilities of a registry as a caller sees them: per name, the schema
\* and the usage data
Contents(r) ==
  {[name |-> r.tools[i][1],
    inputSchema |-> r.heap[r.tools[i][2]].inputSchema,
    usageCount |-> r.heap[r.tools[i][2]].usageCount,
    lastUsed |-> r.heap[r.tools[i][2]].lastUsed,
    created |-> r.heap[r.tools[i][2]].created] : i \in 1..Len(r.tools)}

\* the entries of the registry that were registered for (category, text)
RegisteredFor(category, text) ==
  {i \in 1..Len(tools) :
     /\ heap[tools[i][2]].generator.originalDescription = text
     /\ heap[tools[i][2]].queryPattern.category = category}

\* the second of two registerToolFromQuery calls with the same (category,
\* text) has just returned, and the name was not registered before the first
RegisteredTwice == res.op = "registerToolFromQuery" /\ hist.n = 2

\* C1 as stated: after registerToolFromQuery was called twice with the same
\* (category, originalText), from a registry without the derived name, there
\* is exactly one capability for it and its usageCount is 2
C1_TwiceCountsTwo ==
  RegisteredTwice =>
    /\ Cardinality(RegisteredFor(hist.category, hist.text)) = 1
    /\ \A i \in RegisteredFor(hist.category, hist.text) :
         heap[tools[i][2]].usageCount = 2

\* C1 amended: after the two calls there is exactly one capability for
\* (category, originalText), under the derived name, and its usageCount is 1:
\* the first call creates it with usageCount 0, the second counts one re-use
C1_TwiceCountsOne ==
  RegisteredTwice =>
    /\ Cardinality(RegisteredFor(hist.category, hist.text)) = 1
    /\ \A i \in RegisteredFor(hist.category, hist.text) :
         /\ tools[i][1] = generateToolName(hist.text, hist.category)
         /\ heap[tools[i][2]].usageCount = 1
         /\ heap[tools[i][2]].lastUsed = Some(now)

\* C1: the second call has returned, next to another capability
C1_Witness ==
  /\ RegisteredTwice
  /\ Len(tools) = 2
  /\ heap[MapGet(tools, res.name)].usageCount = 1

\* C2 as stated: every executeTool of a registered capability increments the
\* usageCount of the capability under that same name by exactly one and sets
\* its lastUsed, whichever operation created it
C2_ExecuteCountsOwnName ==
  [][(res'.op = "executeTool" /\ MapHas(tools, res'.name)) =>
       /\ MapHas(tools', res'.name)
       /\ heap'[MapGet(tools', res'.name)].usageCount
            = heap[MapGet(tools, res'.name)].usageCount + 1
       /\ heap'[MapGet(tools', res'.name)].lastUsed = Some(now)]_vars

\* the age pruneUnusedTools goes by: since lastUsed, or since created
IdleFor(tool) ==
  now - (IF IsSome(tool.lastUsed) THEN Get(tool.lastUsed) ELSE Get(tool.created))

\* C3: pruneUnusedTools(maxAge) removes exactly the capabilities with
\* usageCount 0 whose lastUsed (created, when never used) is more than maxAge
\* old, keeps every capability with usageCount > 0 whatever its age, and
\* returns the number it removed
C3_PruneRemovesUnusedOld ==
  [][res'.op = "pruneUnusedTools" =>
       /\ tools' = SelectSeq(tools, LAMBDA e :
                      ~(heap[e[2]].usageCount = 0 /\ IdleFor(heap[e[2]]) > res'.maxAge))
       /\ \A i \in 1..Len(tools) :
            heap[tools[i][2]].usageCount > 0 => MapHas(tools', tools[i][1])
       /\ heap' = heap
       /\ res'.count = Len(tools) - Len(tools')]_vars

\* C3: a prune has removed an unused capability and kept a used one that is
\* as old
C3_Witness ==
  /\ res.op = "pruneUnusedTools"
  /\ res.count = 1
  /\ \E i \in 1..Len(tools) :
       /\ heap[tools[i][2]].usageCount > 0
       /\ IdleFor(heap[tools[i][2]]) > res.maxAge

\* C4: importTools(exportTools()) into the same registry, and into an empty
\* one, gives the same names with the same inputSchema, usageCount, lastUsed
\* and created
C4_ExportImportRoundTrip ==
  /\ Contents(importTools(reg, exportTools(reg))) = Contents(reg)
  /\ Contents(importTools([heap |-> heap, tools |-> <<>>], exportTools(reg)))
       = Contents(reg)

\* C4: the array exported from a registry of two capabilities, one of them
\* used, has been imported into it
C4_Witness ==
  /\ res.op = "importTools"
  /\ res.ret = Some(exportTools(reg))
  /\ Len(tools) = 2
  /\ \E i \in 1..Len(tools) : heap[tools[i][2]].usageCount > 0
  /\ \E i \in 1..Len(tools) : heap[tools[i][2]].usageCount = 0

\* C5: generateToolFromQuery never raises; when it returns true the
\* capability is registered under exactly the requested name and no other
\* entry changed; when it returns false the registry is unchanged
C5_GenerateUnderRequestedName ==
  [][res'.op = "generateToolFromQuery" =>
       /\ ~res'.threw
       /\ res'.flag =>
            /\ MapHas(tools', res'.name)
            /\ heap'[MapGet(tools', res'.name)].name = res'.name
            /\ heap'[MapGet(tools', res'.name)].usageCount = 0
            /\ \A i \in 1..Len(tools') :
                 tools'[i][1] # res'.name =>
                   /\ MapHas(tools, tools'[i][1])
                   /\ heap'[tools'[i][2]] = heap[MapGet(tools, tools'[i][1])]
            /\ \A i \in 1..Len(tools) : MapHas(tools', tools[i][1])
       /\ ~res'.flag => (tools' = tools /\ heap' = heap)]_vars

\* C5: a capability has been generated under a requested name that the
\* derivation from its phrase does not give, next to another capability
C5_Witness ==
  /\ res.op = "generateToolFromQuery"
  /\ res.flag
  /\ Len(tools) = 2
  /\ MapHas(tools, res.name)
  /\ res.name # generateToolName(heap[MapGet(tools, res.name)].generator.originalDescription,
                                 heap[MapGet(tools, res.name)].queryPattern.category)

\* the tool named `name` is registered with the usage count n
UsedTimes(name, n) == MapHas(tools, name) /\ heap[MapGet(tools, name)].usageCount = n

\* C6: the handler of the tool calls never throws to its caller: whatever the
\* name and the arguments, and however the collaborators answer, it returns a
\* result, which is a success payload or is tagged isError and carries a
\* message; a name that is no tool and for which none can be generated yields
\* the tagged failure.
C6_CallToolNeverThrows ==
  res.op = "callTool" =>
    /\ ~res.threw
    /\ IsSome(res.ret)
    /\ Get(res.ret).isError => Get(res.ret).text # ""
    /\ (res.name \notin StaticTools /\ ~MapHas(tools, res.name)) => Get(res.ret).isError

\* a request for a name that is no tool, and for which none could be
\* generated, has returned the tagged failure
C6_Witness ==
  /\ res.op = "callTool" /\ res.name = "-"
  /\ ~MapHas(tools, "-")
  /\ IsSome(res.ret) /\ Get(res.ret).isError
  /\ StartsWith(Get(res.ret).text, "Error: Unknown tool: -")

\* C7: when the execution collaborator reports an error for the query of a
\* tool call, the result returned is tagged isError.
C7_ExecutionErrorIsTagged ==
  (res.op = "callTool" /\ res.execErr) => (IsSome(res.ret) /\ Get(res.ret).isError)

\* C8: a natural-query request changes the registry only when its query was
\* executed without error and returned at least one row; when the execution
\* fails or returns no row the names and the usage counters are as before.
C8_RegistersOnlyOnRows ==
  [][(res'.op = "callTool" /\ res'.name = "natural-query") =>
       /\ Contents(reg') # Contents(reg) =>
            (res'.executed > 0 /\ ~res'.execErr /\ res'.rows > 0)
       /\ (res'.execErr \/ (res'.executed > 0 /\ res'.rows = 0)) =>
            (heap' = heap /\ tools' = tools)]_vars

\* a natural-query request whose query returned a row has bumped the
\* capability an earlier request created
C8_Witness ==
  /\ res.op = "callTool" /\ res.name = "natural-query"
  /\ res.executed > 0 /\ ~res.execErr /\ res.rows > 0
  /\ UsedTimes(RegisteredName("list compliance violations"), 1)

\* C9: when natural-query saves a template and the save fails, the request
\* still returns the success payload and the capability is registered.
C9_SaveFailureIgnored ==
  (res.op = "callTool" /\ res.name = "natural-query" /\ res.saveErr) =>
    /\ IsSome(res.ret) /\ ~Get(res.ret).isError
    /\ MapHas(tools, RegisteredName("list compliance violations"))

\* C10: generateFromNaturalLanguage raises no error and returns a result with
\* a non-empty query, a confidence between 0 and 1 and a
\* time range that does not start after it ends.
C10_TranslateTotal ==
  res.op = "generateFromNaturalLanguage" =>
    /\ ~res.threw
    /\ Get(res.ret).query # ""
    /\ DoubleLeq(Double(0, 0), Get(res.ret).confidence)
    /\ DoubleLeq(Get(res.ret).confidence, One)
    /\ getTime(Get(res.ret).timeRange.start) <= getTime(Get(res.ret).timeRange.end)

\* the empty text was translated while the collaborators fail
C10_Witness ==
  /\ res.op = "generateFromNaturalLanguage" /\ res.text = ""
  /\ ~res.threw /\ Get(res.ret).query # ""
  /\ cat.last # None

\* C11: mapFieldName and mapFilterToField return a non-empty field name for
\* every filter key, the empty key included, and every known data source,
\* also when its field list is empty or its field discovery failed.
C11_ResolveNonEmpty ==
  res.op \in {"mapFieldName", "mapFilterToField"} => Get(res.ret) # ""

\* the names of a list of descriptors
NamesOf(infos) == {infos[i].name : i \in 1..Len(infos)}

\* the descriptor discoverDataSources builds for a name of the listing or of
\* the seed
DescriptorOf(name, listing) ==
  IF \E i \in 1..Len(listing) : listing[i] = name
  THEN categorizeDataSource(name)
  ELSE getKnownDataSources[CHOOSE i \in 1..Len(getKnownDataSources) :
                             getKnownDataSources[i].name = name]

\* C12: a discoverDataSources call answered from the cache returns exactly the
\* descriptors of the last fetched list and of the seed that match its own
\* filter, whatever the filter of the call that filled the cache.
C12_CacheHitAnswersOwnFilter ==
  (res.op = "discoverDataSources" /\ res.flag) =>
    NamesOf(Get(res.ret))
      = {name \in {Get(hist.listing)[i] : i \in 1..Len(Get(hist.listing))} \cup KnownNames :
           matchesFilter(DescriptorOf(name, Get(hist.listing)), res.request)}

\* C13: discoverDataSources with a limit returns at most that many
\* descriptors.
C13_DiscoverRespectsLimit ==
  (res.op = "discoverDataSources" /\ res.request.limit > 0) =>
    Len(Get(res.ret)) <= res.request.limit

\* C14: exploreDataSource returns a descriptor only for a name of the listing
\* or of the seed, and null for any other name.
C14_ExploreUnknownIsNull ==
  (res.op = "exploreDataSource"
   /\ res.name \notin KnownNames
   /\ \A listing \in Listings : \A i \in 1..Len(listing) : listing[i] # res.name) =>
    res.ret = None

\* C15: once exploreDataSource has discovered the fields of a name, every
\* later exploreDataSource of that name, also the ones mapFieldName makes, calls
\* the execution collaborator no more and returns the same fields, whatever
\* the time that passed; the field cache keeps every entry as it is.
C15_FieldsMemoized ==
  [][/\ \A name \in DOMAIN cat.fc : name \in DOMAIN cat'.fc /\ cat'.fc[name] = cat.fc[name]
     /\ (res'.op = "exploreDataSource" /\ res'.name \in DOMAIN cat.fc) =>
          /\ res'.executed = 0
          /\ IsSome(res'.ret) /\ Get(res'.ret).fields = Some(cat.fc[res'.name])
     /\ (res'.op = "mapFieldName" /\ res'.name \in DOMAIN cat.fc) =>
          res'.executed = 0]_vars

\* a name whose discovery fell back to the known fields was explored again
\* from the cache after the discovery cache expired
C15_Witness ==
  /\ res.op = "exploreDataSource" /\ res.name = "LW_CFG_AWS_S3"
  /\ res.executed = 0
  /\ Get(res.ret).fields = Some(getKnownFields("LW_CFG_AWS_S3"))
  /\ now >= CacheTimeout

\* the base query of the tool registered under the name
BaseQuery(name) == heap[MapGet(tools, name)].generator.lqlQuery.query

\* C16: when a capability is invoked with a severity or a region whose field
\* does not occur in its base query, the query passed to the execution
\* collaborator contains a condition for the argument; when the field occurs
\* already, the query passed is the base query.
C16_RuntimeArgumentsConditioned ==
  (res.op = "executeTool" /\ res.executed > 0) =>
    /\ res.args.severity # "" =>
         IF Includes(BaseQuery(res.name), "SEVERITY")
         THEN Get(res.query) = BaseQuery(res.name)
         ELSE Includes(Get(res.query), "SEVERITY = '" \o res.args.severity \o "'")
    /\ res.args.region # "" =>
         IF Includes(BaseQuery(res.name), "AWS_REGION")
         THEN Get(res.query) = BaseQuery(res.name)
         ELSE Includes(Get(res.query), "AWS_REGION = '" \o res.args.region \o "'")

\* the elements of a sequence
Elements(ws) == {ws[i] : i \in 1..Len(ws)}

\* C17: the phrase inferred for an unregistered name get-aws-<x> contains "AWS"
\* and every hyphen-separated word of <x> as a word, also the words that
\* begin with "with" or "having".
C17_InferKeepsWords ==
  (res.op = "inferNaturalLanguage" /\ StartsWith(res.name, "get-aws-")) =>
    /\ Includes(res.text, "AWS")
    /\ Elements(SplitOn(From(res.name, Len("get-aws-") + 1), "-"))
         \subseteq Elements(SplitWs(res.text))

\* C18: when the server runs with MCP_DISABLE_AUTO_GENERATION='true', so that
\* the loaded configuration has enableAutoGeneration false, the registry
\* stays empty after any sequence of requests.
C18_DisabledStaysEmpty ==
  (~loadConfig(ProcessEnv).dynamicTools.enableAutoGeneration) => tools = <<>>

GotFrom(a) == {p[1] : p \in {q \in hist.calls.returned : q[2] = a}}

\* C20: with requests interleaving at the calls of the collaborators, the
\* descriptors a discover call returns contain, of the descriptors written
\* by a refresh that ran during the call, all those its filter admits or
\* none.
C20_RefreshAtomic ==
  res.op = "discoverDataSources" =>
    \A a \in hist.calls.overlap :
      \/ GotFrom(a) = {}
      \/ GotFrom(a) = {d \in hist.calls.wrote[a] : matchesFilter(d, res.request)}

\* a discover call returned descriptors from the cache while a refresh was
\* in flight
C20_Witness ==
  /\ res.op = "discoverDataSources"
  /\ res.flag
  /\ Get(res.ret) # <<>>
  /\ hist.calls.overlap # {}
  /\ \E i \in 1..Len(inflight) : inflight[i].id \in hist.calls.overlap

\* the doubles nearest to 0.5, 0.6, 0.7, 0.8, 0.9 and 1.0
Tenths ==
  {Half, Double(80530636, 214748364), Double(93952409, 161061272),
   Double(107374182, 107374184), PointNine, One}

\* C21 as stated: the confidence of a translation is one of 0.5, 0.6, 0.7,
\* 0.8, 0.9 and 1.0.
C21_ConfidenceInTenths ==
  (res.op = "generateFromNaturalLanguage" /\ ~res.threw) =>
    Get(res.ret).confidence \in Tenths

\* the sources discoverDataSources shows to the translation of this step
VisibleSources ==
  discoverDataSources(cat, NoFilter,
                      IF IsSome(hist'.listing) THEN Get(hist'.listing) ELSE <<>>, now).ret

\* the sources of which the name, the category or the description contains a
\* word of the text translated in this step
HitsIn(sources, words) ==
  UNION {{i \in 1..Len(s) : \E k \in 1..Len(w) : Includes(Searchable(s[i]), w[k])} :
           s \in {sources}, w \in {words}}

SearchHits ==
  UNION {HitsIn(s, SplitWs(ToLowerCase(res'.text))) : s \in {VisibleSources}}

\* a source is identified for the text translated in this step
SourceIdentified == StaticMatches(ToLowerCase(res'.text)) # {} \/ SearchHits # {}

\* C21: the confidence of a translation is the sum in doubles of 0.5, of 0.2
\* when a data source was identified, of 0.2 when a pattern matched and of
\* 0.1 when a filter was extracted, at most 1.0: with a source it is 0.7,
\* 0.7999999999999999, 0.8999999999999999 or 0.9999999999999999, without one
\* 0.5, 0.6, 0.7 or 0.7999999999999999; it is higher with every signal more
\* and lies between 0.5 and 1.0.
C21_ConfidenceInDoubles ==
  [][(now' = now /\ res'.op = "generateFromNaturalLanguage" /\ ~res'.threw) =>
       \A source \in {SourceIdentified},
          pattern \in {IsSome(matchQueryPattern(res'.text))},
          filters \in {extractFilters(ToLowerCase(res'.text)) # <<>>},
          c \in {Get(res'.ret).confidence} :
           /\ source =>
                /\ ~pattern /\ ~filters => c = Double(93952409, 161061272)
                /\ ~pattern /\ filters  => c = Double(107374182, 107374180)
                /\ pattern /\ ~filters  => c = Double(120795955, 53687088)
                /\ pattern /\ filters   => c = Double(134217727, 268435452)
           /\ ~source =>
                /\ ~pattern /\ ~filters => c = Half
                /\ ~pattern /\ filters  => c = Double(80530636, 214748364)
                /\ pattern /\ ~filters  => c = Double(93952409, 161061272)
                /\ pattern /\ filters   => c = Double(107374182, 107374180)
           /\ DoubleLeq(Half, c) /\ DoubleLeq(c, One)]_vars

\* a text with a pattern and a filter was translated
C21_Witness ==
  /\ res.op = "generateFromNaturalLanguage" /\ ~res.threw
  /\ IsSome(matchQueryPattern(res.text))
  /\ extractFilters(ToLowerCase(res.text)) # <<>>
  /\ Get(res.ret).confidence = Double(134217727, 268435452)

\* the fields the catalog holds for the source of the last resolution
ResolvedFields ==
  IF CacheHas(cat.dsc, res.name) /\ IsSome(Get(CacheGet(cat.dsc, res.name)).fields)
  THEN Get(Get(CacheGet(cat.dsc, res.name)).fields)
  ELSE <<>>

\* the entry the static table of the last resolution has for its key ("" for
\* none)
TableEntry ==
  IF res.op = "mapFieldName" THEN fieldMappings(res.name, res.text)
  ELSE IF MapHas(CommonMappings, ToLowerCase(res.text))
  THEN MapGet(CommonMappings, ToLowerCase(res.text))
  ELSE ""

\* the first field whose name is the key, whatever the case
ExactFields ==
  {i \in 1..Len(ResolvedFields) :
     ToLowerCase(ResolvedFields[i].name) = ToLowerCase(res.text)}

\* the fields whose name or description contains the key
ContainingFields ==
  {i \in 1..Len(ResolvedFields) :
     \/ Includes(ToLowerCase(ResolvedFields[i].name), ToLowerCase(res.text))
     \/ Includes(ToLowerCase(ResolvedFields[i].description), ToLowerCase(res.text))}

\* C22: mapFieldName and mapFilterToField return the field whose name equals
\* the key case-insensitively; else a field whose name or description
\* contains the key; else the entry of the static table for the key; else the
\* upper-cased key.
C22_ResolveLadder ==
  res.op \in {"mapFieldName", "mapFilterToField"} =>
    IF ExactFields # {}
    THEN Get(res.ret) \in {ResolvedFields[i].name : i \in ExactFields}
    ELSE IF ContainingFields # {}
    THEN Get(res.ret) \in {ResolvedFields[i].name : i \in ContainingFields}
    ELSE IF TableEntry # "" THEN Get(res.ret) = TableEntry
    ELSE Get(res.ret) = ToUpperCase(res.text)

\* a field list has unique names in ascending order
SortedByName(fields) ==
  \A i \in 1..Len(fields), j \in 1..Len(fields) :
    i < j => LocaleLess(fields[i].name, fields[j].name)

\* C23: every field list the catalog holds, in a descriptor or in the field
\* cache, has unique field names and is sorted ascending by name, whether it
\* was sampled or is the fallback for an empty sample or a failed execution.
C23_FieldListsSorted ==
  /\ \A i \in 1..Len(cat.dsc) :
       IsSome(cat.dsc[i].fields) => SortedByName(Get(cat.dsc[i].fields))
  /\ \A n \in DOMAIN cat.fc : SortedByName(cat.fc[n])

\* the query returned in this step selects from the source
Selects(source) ==
  StartsWith(Get(res'.ret).query, "{\n  source {\n    " \o source \o " r\n  }")

\* the order of the hits of a search: those whose name contains the whole
\* text first, then by name
RankedBefore(a, b, text) ==
  LET inA == Includes(ToLowerCase(a.name), text)
      inB == Includes(ToLowerCase(b.name), text)
  IN  (inA /\ ~inB) \/ (inA = inB /\ LocaleLess(a.name, b.name))

TopOf(sources, hits, text) ==
  sources[CHOOSE i \in hits :
            \A j \in hits \ {i} : RankedBefore(sources[i], sources[j], text)].name

\* the top hit of the sources for the text, "" with no hit
TopIn(sources, text) ==
  CHOOSE name \in {IF h = {} THEN "" ELSE TopOf(s, h, text) :
                     s \in {sources}, h \in {HitsIn(sources, SplitWs(text))}} : TRUE

\* the name of the first hit of the search of this step, "" with no hit
TopHit ==
  CHOOSE name \in {TopIn(s, ToLowerCase(res'.text)) : s \in {VisibleSources}} : TRUE

\* C24: a translation selects the source of the first static mapping, in
\* table order, a keyword of which occurs in the text, and then the listing
\* collaborator is not called and no discovery is recorded; with no such
\* keyword it selects the top hit of the search of the catalog; with no hit
\* it selects the source of the default inference.
C24_IdentificationLadder ==
  [][(now' = now /\ res'.op = "generateFromNaturalLanguage" /\ ~res'.threw) =>
       IF StaticMatches(ToLowerCase(res'.text)) # {}
       THEN /\ Selects(StaticDataSources[MinOf(StaticMatches(ToLowerCase(res'.text)))].lqlSource)
            /\ res'.count = 0
            /\ cat'.last = cat.last
       ELSE \A hit \in {TopHit} :
              IF hit # "" THEN Selects(hit)
              ELSE Selects(inferDataSourceFromQuery(res'.text))]_vars

\* a text without a static keyword was translated to the top hit of a search
\* that called the listing collaborator
C24_Witness ==
  /\ res.op = "generateFromNaturalLanguage" /\ ~res.threw
  /\ StaticMatches(ToLowerCase(res.text)) = {}
  /\ res.count > 0
  /\ ~StartsWith(Get(res.ret).query,
                 "{\n  source {\n    " \o inferDataSourceFromQuery(res.text) \o " r\n  }")

\* the source a query selects from
SourceIn(query) ==
  LET rest == From(query, Len("{\n  source {\n    ") + 1)
  IN  SubSeq(rest, 1, IndexOfFrom(rest, " r\n", 1) - 1)

\* the query has the comparison of the parameter on the field its key resolves
\* to in the catalog
Compared(query, key, value) ==
  Includes(query,
           FilterCondition(mapFieldName(cat, key, SourceIn(query), ExecThrow).ret, value))

\* C25: every key of the parameters of a translation, those of the pattern as
\* well as those of the filters, has a comparison on its resolved field in the
\* query of the translation.
C25_ParametersCompared ==
  (res.op = "generateFromNaturalLanguage" /\ ~res.threw) =>
     \A i \in 1..Len(Get(res.ret).parameters) :
        Compared(Get(res.ret).query, Get(res.ret).parameters[i][1],
                 Get(res.ret).parameters[i][2])

\* the same for the keys of the extracted filters only
C25_FiltersCompared ==
  (res.op = "generateFromNaturalLanguage" /\ ~res.threw) =>
     \A i \in 1..Len(extractFilters(ToLowerCase(res.text))) :
        Compared(Get(res.ret).query, extractFilters(ToLowerCase(res.text))[i][1],
                 extractFilters(ToLowerCase(res.text))[i][2])

\* the hours of the first phrase of the list that occurs in the text, 24 with
\* no phrase
WindowHours(text) ==
  IF IncludesAny(text, {"last hour", "past hour"}) THEN 1
  ELSE IF IncludesAny(text, {"last 24 hour", "past 24 hour", "today"}) THEN 24
  ELSE IF IncludesAny(text, {"last week", "past week"}) THEN 168
  ELSE IF IncludesAny(text, {"last month", "past month"}) THEN 720
  ELSE IF IncludesAny(text, {"last 7 day", "past 7 day"}) THEN 168
  ELSE IF IncludesAny(text, {"last 30 day", "past 30 day"}) THEN 720
  ELSE 24

\* C26: the time range of a translation ends at the instant of the call and
\* starts the hours of the first phrase of the list that occurs in the text
\* earlier, 24 hours with no phrase.
C26_TimeWindow ==
  (res.op = "generateFromNaturalLanguage" /\ ~res.threw) =>
     /\ Get(res.ret).timeRange.end = toISOString(now)
     /\ Get(res.ret).timeRange.start =
          toISOString(now - WindowHours(ToLowerCase(res.text)) * 3600)

\* a text with a phrase of 720 hours and a later one of 168 hours in the list
\* order was translated after the clock advanced
C26_Witness ==
  /\ res.op = "generateFromNaturalLanguage" /\ ~res.threw
  /\ now > 0
  /\ Includes(res.text, "last 30 days") /\ Includes(res.text, "past week")
  /\ Get(res.ret).timeRange.start = toISOString(now - 168 * 3600)

C27_RegisteredInvokeFrame ==
  [][(res'.op = "executeTool" /\ MapHas(tools, res'.name)
      /\ \E text \in Texts : res'.name = RegisteredName(text)) =>
       \A i \in 1..Len(tools) :
          tools[i][1] # res'.name =>
            /\ MapHas(tools', tools[i][1])
            /\ heap'[MapGet(tools', tools[i][1])].usageCount = heap[tools[i][2]].usageCount
            /\ heap'[MapGet(tools', tools[i][1])].lastUsed = heap[tools[i][2]].lastUsed]_vars

\* C28: a registerToolFromQuery whose name is registered increments the
\* usageCount of that capability and sets its lastUsed, and changes nothing
\* else: not its description, schema, query pattern, generator or created
\* instant, whatever text and translation it was called with, no other
\* capability, and not the names registered.
C28_ReuseChangesUsageOnly ==
  [][(res'.op = "registerToolFromQuery" /\ MapHas(tools, res'.name)) =>
       /\ tools' = tools
       /\ Len(heap') = Len(heap)
       /\ \A i \in 1..Len(heap) :
            heap'[i] = IF i = MapGet(tools, res'.name)
                       THEN [heap[i] EXCEPT !.usageCount = @ + 1,
                                            !.lastUsed = toISOString(now)]
                       ELSE heap[i]]_vars

\* a capability was registered again with another text and another
\* translation than those it holds, beside another capability
C28_Witness ==
  /\ res.op = "registerToolFromQuery" /\ MapHas(tools, res.name)
  /\ Len(tools) > 1
  /\ heap[MapGet(tools, res.name)].usageCount > 0
  /\ heap[MapGet(tools, res.name)].generator.originalDescription # res.text
  /\ heap[MapGet(tools, res.name)].queryPattern.query # TranslationOf["high severity ec2 instances last 7 days"].query
  /\ res.text = "list aws ec2 instances"

\* C29: an exploreDataSource, called directly or by mapFieldName, changes for
\* no filter the set of names a discoverDataSources answers from the fresh
\* cache
C29_ExploreKeepsDiscovered ==
  [][(res'.op \in {"exploreDataSource", "mapFieldName"} /\ shouldUseCache(cat, now)) =>
       \A request \in DiscoverRequests :
          NamesOf(discoverDataSources(cat', request, <<>>, now).ret)
            = NamesOf(discoverDataSources(cat, request, <<>>, now).ret)]_vars

\* the same for the names the fresh cache holds already
C29_ExploreCachedKeepsDiscovered ==
  [][(res'.op \in {"exploreDataSource", "mapFieldName"} /\ shouldUseCache(cat, now)
      /\ CacheHas(cat.dsc, res'.name)) =>
       \A request \in DiscoverRequests :
          NamesOf(discoverDataSources(cat', request, <<>>, now).ret)
            = NamesOf(discoverDataSources(cat, request, <<>>, now).ret)]_vars

\* the CLI of a call that ended ran the query of the call, and the file of the
\* call was there until the CLI ended
RanOwnQuery(call) ==
  call.pc = "done" => (call.ran = Some(call.query) /\ call.kept)

\* C30: of two executeQuery calls that ran side by side, each ran the CLI on
\* the query it was given and kept its temporary file until its CLI ended, and
\* no temporary file is left when both have ended.
C30_OverlapIsolated ==
  /\ \A i \in 1..Len(handler.calls) :
       handler.calls[i].overlapped => RanOwnQuery(handler.calls[i])
  /\ (/\ Len(handler.calls) > 0
      /\ \A i \in 1..Len(handler.calls) : handler.calls[i].pc = "done") =>
       handler.files = <<>>

\* the same for the calls that named their files at different instants
C30_ApartIsolated ==
  (\A i, j \in 1..Len(handler.calls) :
      (i # j /\ IsSome(handler.calls[i].file)) => handler.calls[i].file # handler.calls[j].file) =>
    C30_OverlapIsolated

====
